---- MODULE Spec2Model ----
(***************************************************************************)
(* State-machine model of the xApps under src/xApps/python:                *)
(*   anomaly_detector.py     (AnomalyDetectorXapp)   -> SpecAD             *)
(*   anomaly_detector.py     update_metrics_history  -> SpecStore          *)
(*   qos_traffic_steerer.py  classify_traffic        -> SpecClassify       *)
(*   qos_traffic_steerer.py  check_qos_violations    -> SpecQoS            *)
(*                                                                         *)
(* Numbers.  Metric values are integers in units of 0.1 (0.2 is 2, 30 is    *)
(* 300).  For a window h of n values with sum S and sum of squares Q,      *)
(* mean = S/n and (population) variance = (n*Q - S*S)/n^2, so              *)
(*   z = |n*x - S| / sqrt(n*Q - S*S)                                       *)
(* which does not depend on the unit.  A z-score is carried as its square, *)
(* a fraction <<p, q>> in lowest terms (z = 5.0 is <<25, 1>>, z = 0.0 is   *)
(* <<0, 1>>).                                                              *)
(*                                                                         *)
(* Floating point.  The code computes in binary floating point.  A value   *)
(* is representable exactly iff it is a multiple of 0.5 (of 5 units); sums *)
(* and means of such values are exact at the sizes modelled.  The mean of  *)
(* n equal values that are not representable (0.1, 0.2, ...) may or may    *)
(* not round back to the value, depending on n and on the order in which   *)
(* numpy adds: np.mean([0.1] * 30) is 0.10000000000000003 with numpy's     *)
(* pairwise summation.  fp_residue says whether it does not; it is fixed   *)
(* for a run.  This is the one place where rounding decides a branch       *)
(* (std_val == 0); everywhere else the quotients are taken exactly.        *)
(***************************************************************************)
EXTENDS Integers, Sequences, FiniteSets, TLC

VARIABLES
    \* ---- AnomalyDetectorXapp (anomaly_detector.py:18-29)
    metrics_history,    \* dict: metric key -> deque(maxlen = max_history_length)
    last_alert_time,    \* dict: metric key -> time of the last alert
    anomalies_detected, \* global anomaly counter
    anomaly_details,    \* dict: metric key -> per-key anomaly counter
    \* ---- QoSTrafficSteererXapp (qos_traffic_steerer.py:26-27)
    ue_traffic_history, \* defaultdict: UE -> deque(maxlen = 50) of metric snapshots
    ue_qos_violations,  \* defaultdict(int): UE -> QoS violation counter
    cell_load,          \* dict: cell -> load stored by evaluate_cell_load
    last_steering_time, \* dict: UE -> time of the last steering recommendation
    \* ---- MLResourceOptimizerXapp (ml_resource_optimizer.py:20-33)
    ue_metrics_history, \* dict: UE -> deque(maxlen = 100) of metric snapshots
    model_trained,      \* a train_models call has completed
    training_data_X,    \* list of feature vectors
    training_data_y_prb, \* list of targets
    training_data_y_ho, \* list of labels
    scaler,             \* the fit that set the scaler: [gen, n] (gen 0: not fitted)
    prb_predictor,      \* the fit that set the regression model
    handover_predictor, \* the fit that set the classifier
    fits,               \* history variable: number of train_models calls that fitted
    since_retrain,      \* history variable: buffer appends since the last retraining
    train_pc,           \* the line the thread inside train_models is at, or "idle"
    \* ---- e2sm_ccc_module (lib/e2sm_ccc_module.py:24, 139)
    requestorID,        \* the requestor id last handed out
    rmr_sent,           \* the control requests passed to parent.rmr_send, in order
    \* ---- environment and observation
    now,                \* the value time.time() returns
    fp_residue,         \* np.mean of equal non-representable values is off the value
    ret,                \* the last operation, its arguments and its return value
    inserted,           \* history variable: every value ever passed to update, per key
    alert_times,        \* history variable: per key, the times of its True returns
    nUpd                \* number of history-appending calls since Init (bounded)

vars == <<metrics_history, last_alert_time, anomalies_detected, anomaly_details,
          ue_traffic_history, ue_qos_violations, cell_load, last_steering_time,
          ue_metrics_history, model_trained, training_data_X, training_data_y_prb,
          training_data_y_ho, scaler, prb_predictor, handover_predictor,
          fits, since_retrain, train_pc, requestorID, rmr_sent,
          now, fp_residue, ret, inserted, alert_times, nUpd>>

qosVars == <<ue_traffic_history, ue_qos_violations>>

adVars == <<metrics_history, last_alert_time, anomalies_detected, anomaly_details,
            inserted, alert_times, nUpd>>

steerVars == <<cell_load, last_steering_time>>

cccVars == <<requestorID, rmr_sent>>

mlVars == <<ue_metrics_history, model_trained, training_data_X, training_data_y_prb,
            training_data_y_ho, scaler, prb_predictor, handover_predictor,
            fits, since_retrain, train_pc>>

(***************************************************************************)
(* Bounds of the model                                                     *)
(***************************************************************************)
MaxStoreUpdates == 3   \* update calls per run of SpecStore
MaxUpdates == 1        \* update calls per run of SpecAD
MaxTime == 125         \* the clock stops advancing here
MaxClassify == 2       \* classify_traffic calls per run of SpecClassify
MaxViolations == 3     \* check_qos_violations stops being called at this count
MaxCallbacks == 4      \* indications per run of SpecSteer
MaxSteerTime == 240    \* the clock of SpecSteer stops advancing here
MaxMLUpdates == 1      \* update_metrics_history calls per run of SpecML
MaxFits == 1           \* direct train_models calls stop at this many fits
MaxMLSamples == 2      \* samples per run of SpecMLFlow

(***************************************************************************)
(* Generic helpers                                                         *)
(***************************************************************************)
Abs(x) == IF x < 0 THEN -x ELSE x

RECURSIVE GCD(_, _)
GCD(a, b) == IF b = 0 THEN a ELSE GCD(b, a % b)

\* A non-negative fraction p/q in lowest terms (q = 0 is kept as <<1, 0>>).
Reduce(p, q) ==
    LET g == GCD(p, q)
    IN  IF g = 0 THEN <<0, 1>> ELSE <<p \div g, q \div g>>

\* Sum of s[lo..hi], by halving the range (exact integer arithmetic).
RECURSIVE RangeSum(_, _, _)
RangeSum(s, lo, hi) ==
    IF lo > hi THEN 0
    ELSE IF lo = hi THEN s[lo]
    ELSE LET mid == (lo + hi) \div 2
         IN  RangeSum(s, lo, mid) + RangeSum(s, mid + 1, hi)

SeqSum(s) == RangeSum(s, 1, Len(s))

SeqSumSq(s) == RangeSum([i \in 1..Len(s) |-> s[i] * s[i]], 1, Len(s))

\* The last n elements of s (all of s when it is shorter): Python's s[-n:].
LastN(s, n) == IF Len(s) <= n THEN s ELSE SubSeq(s, Len(s) - n + 1, Len(s))

\* n copies of x.
Rep(x, n) == [i \in 1..n |-> x]

\* dict[key] = value
Put(d, k, v) == [x \in DOMAIN d \cup {k} |-> IF x = k THEN v ELSE d[x]]

\* dict.get(key, default)
Get(d, k, default) == IF k \in DOMAIN d THEN d[k] ELSE default

\* The empty dict.
EmptyDict == [x \in {} |-> 0]

(***************************************************************************)
(* collections.deque(maxlen = n).append(x): once the deque is full, an     *)
(* append discards one item from the opposite (left) end.                  *)
(***************************************************************************)
deque_append_no_evict(d, x, maxlen) == Append(d, x)

deque_append(d, x, maxlen) ==
    IF Len(d) >= maxlen THEN Append(Tail(d), x) ELSE Append(d, x)

(***************************************************************************)
(* AnomalyDetectorXapp: configuration (anomaly_detector.py:19-24)          *)
(***************************************************************************)
max_history_length == 200
anomaly_threshold == 3
min_history_for_detection == 30
alert_cooldown == 60

Keys == {"ue0_DRB.UEThpDl", "cell_RRC.ConnEstabSucc"}
UpdateValues == {100, 200}
DetectValues == {1, 160, 200}
TickDeltas == {alert_cooldown, alert_cooldown + 1}

\* Windows the store can hold after a run of updates: a values of 8.0 followed by
\* b values of 12.0 (mean 10 and standard deviation 2 when a = b), n values of
\* 10.0, or n values of 0.1.
Mix(a, b) == Rep(80, a) \o Rep(120, b)

\* Windows around min_history_for_detection (SpecAD).
InitWindows(k) ==
    IF k = "ue0_DRB.UEThpDl"
    THEN { Rep(100, min_history_for_detection - 1), Mix(14, 15), Mix(15, 15),
           Rep(1, min_history_for_detection) }
    ELSE { Mix(15, 15) }

\* Windows around max_history_length (SpecStore).
InitStoreWindows ==
    { Mix(15, 15),
      Mix(max_history_length \div 2 - 1, max_history_length \div 2),
      Mix(max_history_length \div 2, max_history_length \div 2) }

(***************************************************************************)
(* update_metrics_history (anomaly_detector.py:31-36)                      *)
(***************************************************************************)
update_metrics_history(hist, metric_name, value) ==
    LET h == IF metric_name \notin DOMAIN hist THEN <<>> ELSE hist[metric_name]
    IN  Put(hist, metric_name, deque_append(h, value, max_history_length))

(***************************************************************************)
(* detect_anomaly (anomaly_detector.py:38-78)                              *)
(***************************************************************************)
\* Lines 50-51 read the window through np.mean and np.std.  Stats(history) is what
\* both are computed from: the length n, the sum S and the sum of squares Q.
Stats(history) ==
    [n |-> Len(history), S |-> SeqSum(history), Q |-> SeqSumSq(history)]

\* n^2 * np.std(history)^2
VarNum(st) == st.n * st.Q - st.S * st.S

\* n * abs(current_value - np.mean(history))
DevNum(st, current_value) == Abs(st.n * current_value - st.S)

\* line 46: len(history) < self.min_history_for_detection
InsufficientHistory_off_by_one(history) == Len(history) < min_history_for_detection - 1

InsufficientHistory(history) == Len(history) < min_history_for_detection

\* A value in units of 0.1 is a binary floating-point number iff it is a multiple
\* of 0.5.
Representable(v) == v % 5 = 0

\* line 53: std_val == 0.  The window has no spread and its mean was computed
\* without a rounding residue.
ZeroStd(st, history, residue) ==
    /\ VarNum(st) = 0
    /\ ~(residue /\ ~Representable(history[1]))

\* line 56: z_score = abs(current_value - mean_val) / std_val   (as its square).
\* When the window has no spread and line 53 did not return, mean_val is off the
\* value v of the window by a residue e and std_val is |e|: the value v scores
\* |e| / |e| = 1.0 and any other value x scores |x - v| / |e|, above every
\* threshold, carried as <<1, 0>>.
z_score(st, current_value) ==
    IF VarNum(st) = 0 /\ DevNum(st, current_value) = 0
    THEN <<1, 1>>
    ELSE Reduce(DevNum(st, current_value) * DevNum(st, current_value), VarNum(st))

\* line 62: is_anomaly = z_score > self.anomaly_threshold
ExceedsThreshold_inclusive(st, current_value) ==
    DevNum(st, current_value) * DevNum(st, current_value)
        >= anomaly_threshold * anomaly_threshold * VarNum(st)

ExceedsThreshold(st, current_value) ==
    DevNum(st, current_value) * DevNum(st, current_value)
        > anomaly_threshold * anomaly_threshold * VarNum(st)

\* lines 60, 63: cooldown_expired = (current_time - last_alert) > self.alert_cooldown
CooldownExpired_inclusive(lat, metric_name, current_time) ==
    (current_time - Get(lat, metric_name, 0)) >= alert_cooldown

CooldownExpired(lat, metric_name, current_time) ==
    (current_time - Get(lat, metric_name, 0)) > alert_cooldown

\* The return value of detect_anomaly; is_anomaly is TRUE exactly when the alerting
\* branch (lines 65-73) is the one taken.
detect_anomaly(hist, lat, metric_name, current_value, current_time, residue) ==
    IF metric_name \notin DOMAIN hist
    THEN [is_anomaly |-> FALSE, z_score |-> <<0, 1>>]
    ELSE LET history == hist[metric_name]
         IN  IF InsufficientHistory(history)
             THEN [is_anomaly |-> FALSE, z_score |-> <<0, 1>>]
             ELSE LET st == Stats(history)
                  IN  IF ZeroStd(st, history, residue)
                      THEN [is_anomaly |-> FALSE, z_score |-> <<0, 1>>]
                      ELSE IF /\ ExceedsThreshold(st, current_value)
                              /\ CooldownExpired(lat, metric_name, current_time)
                      THEN [is_anomaly |-> TRUE,
                            z_score |-> z_score(st, current_value)]
                      ELSE [is_anomaly |-> FALSE,
                            z_score |-> z_score(st, current_value)]

\* line 66: self.last_alert_time[metric_name] = current_time
record_alert(lat, metric_name, current_time) == Put(lat, metric_name, current_time)

\* lines 69-71: the per-key counter, created at 0 when absent, then incremented
count_anomaly_overwrite(details, metric_name) == Put(details, metric_name, 1)

count_anomaly(details, metric_name) ==
    Put(details, metric_name, Get(details, metric_name, 0) + 1)

\* The traffic steerer as constructed (qos_traffic_steerer.py:26-27).
UEs == {"ue0", "ue1"}

\* The control module as constructed (lib/e2sm_ccc_module.py:18-24); nothing
\* has been sent.
CCCIdle ==
    /\ requestorID = 0
    /\ rmr_sent = <<>>

\* The steering state as constructed (qos_traffic_steerer.py:30-37).
SteerIdle ==
    /\ cell_load = EmptyDict
    /\ last_steering_time = EmptyDict

\* The ML optimizer as constructed (ml_resource_optimizer.py:20-33).
MLIdle ==
    /\ ue_metrics_history = EmptyDict
    /\ model_trained = FALSE
    /\ training_data_X = <<>>
    /\ training_data_y_prb = <<>>
    /\ training_data_y_ho = <<>>
    /\ scaler = [gen |-> 0, n |-> 0]
    /\ prb_predictor = [gen |-> 0, n |-> 0]
    /\ handover_predictor = [gen |-> 0, n |-> 0]
    /\ fits = 0
    /\ since_retrain = 0
    /\ train_pc = "idle"

QoSIdle ==
    /\ ue_traffic_history = [u \in UEs |-> <<>>]
    /\ ue_qos_violations = [u \in UEs |-> 0]

(***************************************************************************)
(* Actions of the anomaly detector                                         *)
(***************************************************************************)
InitAD ==
    /\ SteerIdle
    /\ CCCIdle
    /\ MLIdle
    /\ \E ks \in SUBSET Keys :
         metrics_history \in
             { f \in [ks -> UNION {InitWindows(k) : k \in Keys}] :
                   \A k \in ks : f[k] \in InitWindows(k) }
    /\ inserted = metrics_history
    /\ last_alert_time = EmptyDict
    /\ anomalies_detected = 0
    /\ anomaly_details = EmptyDict
    /\ alert_times = EmptyDict
    /\ nUpd = 0
    /\ now = 0
    /\ fp_residue \in BOOLEAN
    /\ ret = [op |-> "init"]
    /\ QoSIdle

InitStore ==
    /\ SteerIdle
    /\ CCCIdle
    /\ MLIdle
    /\ \E ks \in SUBSET Keys : metrics_history \in [ks -> InitStoreWindows]
    /\ inserted = metrics_history
    /\ last_alert_time = EmptyDict
    /\ anomalies_detected = 0
    /\ anomaly_details = EmptyDict
    /\ alert_times = EmptyDict
    /\ nUpd = 0
    /\ now = 0
    /\ fp_residue = FALSE
    /\ ret = [op |-> "init"]
    /\ QoSIdle

\* One call of update_metrics_history.
Update(metric_name, value) ==
    /\ nUpd' = nUpd + 1
    /\ metrics_history' = update_metrics_history(metrics_history, metric_name, value)
    /\ inserted' = Put(inserted, metric_name,
                       Append(Get(inserted, metric_name, <<>>), value))
    /\ ret' = [op |-> "update_metrics_history", key |-> metric_name, value |-> value]
    /\ UNCHANGED <<last_alert_time, anomalies_detected, anomaly_details, alert_times, now,
                   fp_residue, cccVars>>
    /\ UNCHANGED qosVars
    /\ UNCHANGED <<steerVars, mlVars>>

StoreUpdate(metric_name, value) ==
    /\ nUpd < MaxStoreUpdates
    /\ Update(metric_name, value)

UpdateMetricsHistory(metric_name, value) ==
    /\ nUpd < MaxUpdates
    /\ Update(metric_name, value)

DetectAnomaly(metric_name, current_value) ==
    LET r == detect_anomaly(metrics_history, last_alert_time, metric_name,
                            current_value, now, fp_residue)
    IN  /\ ret' = [op |-> "detect_anomaly", key |-> metric_name,
                   value |-> current_value,
                   is_anomaly |-> r.is_anomaly, z_score |-> r.z_score]
        /\ IF r.is_anomaly
           THEN /\ last_alert_time' = record_alert(last_alert_time, metric_name, now)
                /\ anomalies_detected' = anomalies_detected + 1
                /\ anomaly_details' = count_anomaly(anomaly_details, metric_name)
                /\ alert_times' =
                       Put(alert_times, metric_name,
                           Append(Get(alert_times, metric_name, <<>>), now))
           ELSE UNCHANGED <<last_alert_time, anomalies_detected, anomaly_details,
                            alert_times>>
        /\ UNCHANGED <<metrics_history, inserted, nUpd, now, fp_residue, cccVars>>
        /\ UNCHANGED qosVars
        /\ UNCHANGED <<steerVars, mlVars>>

\* time.time() is non-decreasing; it advances between operations.
Tick(d) ==
    /\ now + d <= MaxTime
    /\ now' = now + d
    /\ ret' = [op |-> "tick"]
    /\ UNCHANGED <<fp_residue, cccVars>>
    /\ UNCHANGED adVars
    /\ UNCHANGED qosVars
    /\ UNCHANGED <<steerVars, mlVars>>

NextAD ==
    \/ \E k \in Keys, v \in UpdateValues : UpdateMetricsHistory(k, v)
    \/ \E k \in Keys, v \in DetectValues : DetectAnomaly(k, v)
    \/ \E d \in TickDeltas : Tick(d)

SpecAD == InitAD /\ [][NextAD]_vars

NextStore ==
    \E k \in Keys, v \in UpdateValues : StoreUpdate(k, v)

SpecStore == InitStore /\ [][NextStore]_vars

(***************************************************************************)
(* The per-sample flow of the anomaly detector                             *)
(* (anomaly_detector.py:80-150)                                            *)
(*                                                                         *)
(* An indication is the sequence of its <<key, values>> pairs, in the      *)
(* order the loops of lines 93-97 (or 121) visit them; the keys of one     *)
(* indication are distinct.                                                *)
(***************************************************************************)
MaxADSamples == 2      \* indications per run of SpecADFlow

\* lines 98-106 (and 122-129) for one metric: nothing for an empty list; else
\* the sum of the values is appended to the window of the key and then scored.
\* st holds the attributes detect_anomaly reads and writes, and the log of the
\* calls made.
process_sample_detect_first(st, key, values, current_time, residue) ==
    IF values = <<>> THEN st
    ELSE LET v == SeqSum(values)
             r == detect_anomaly(st.hist, st.lat, key, v, current_time, residue)
         IN  [ hist    |-> update_metrics_history(st.hist, key, v),
               lat     |-> IF r.is_anomaly
                           THEN record_alert(st.lat, key, current_time) ELSE st.lat,
               count   |-> IF r.is_anomaly THEN st.count + 1 ELSE st.count,
               details |-> IF r.is_anomaly
                           THEN count_anomaly(st.details, key) ELSE st.details,
               log     |-> Append(st.log, [key |-> key, value |-> v,
                                           is_anomaly |-> r.is_anomaly,
                                           z_score |-> r.z_score]) ]

process_sample(st, key, values, current_time, residue) ==
    IF values = <<>> THEN st
    ELSE LET v == SeqSum(values)
             h == update_metrics_history(st.hist, key, v)
             r == detect_anomaly(h, st.lat, key, v, current_time, residue)
         IN  [ hist    |-> h,
               lat     |-> IF r.is_anomaly
                           THEN record_alert(st.lat, key, current_time) ELSE st.lat,
               count   |-> IF r.is_anomaly THEN st.count + 1 ELSE st.count,
               details |-> IF r.is_anomaly
                           THEN count_anomaly(st.details, key) ELSE st.details,
               log     |-> Append(st.log, [key |-> key, value |-> v,
                                           is_anomaly |-> r.is_anomaly,
                                           z_score |-> r.z_score]) ]

\* lines 93-97, 121: the loop over the metrics of the indication
RECURSIVE process_samples(_, _, _, _)
process_samples(st, samples, current_time, residue) ==
    IF samples = <<>> THEN st
    ELSE process_samples(process_sample(st, Head(samples)[1], Head(samples)[2],
                                        current_time, residue),
                         Tail(samples), current_time, residue)

\* The value lists a metric of an indication carries: none, one value (10.0),
\* two values (summed to 20.0).
ADValueLists == { <<>>, <<100>>, <<100, 100>> }

\* A cell-level or UE-level indication of one metric, and a UE-level one of two.
ADIndications ==
    { <<<<k, vs>>>> : k \in Keys, vs \in ADValueLists }
    \cup { << <<"ue0_DRB.UEThpDl", <<100, 100>>>>, <<"ue0_DRB.UEThpUl", <<100>>>> >> }

\* The entries of the log of a given key, in order.
RECURSIVE LogOf(_, _)
LogOf(log, key) ==
    IF log = <<>> THEN <<>>
    ELSE (IF Head(log).key = key THEN <<Head(log)>> ELSE <<>>)
             \o LogOf(Tail(log), key)

\* One indication: my_subscription_callback (lines 80-150).
ADSubscriptionCallback(samples) ==
    LET st == process_samples([hist |-> metrics_history, lat |-> last_alert_time,
                               count |-> anomalies_detected,
                               details |-> anomaly_details, log |-> <<>>],
                              samples, now, fp_residue)
        keys == {st.log[i].key : i \in 1..Len(st.log)}
    IN  /\ nUpd < MaxADSamples
        /\ nUpd' = nUpd + 1
        /\ metrics_history' = st.hist
        /\ last_alert_time' = st.lat
        /\ anomalies_detected' = st.count
        /\ anomaly_details' = st.details
        /\ inserted' =
               [k \in DOMAIN inserted \cup keys |->
                   Get(inserted, k, <<>>)
                     \o [i \in 1..Len(LogOf(st.log, k)) |-> LogOf(st.log, k)[i].value]]
        /\ alert_times' =
               [k \in DOMAIN alert_times
                        \cup {k \in keys : \E i \in 1..Len(st.log) :
                                  st.log[i].key = k /\ st.log[i].is_anomaly} |->
                   Get(alert_times, k, <<>>)
                     \o (IF \E i \in 1..Len(st.log) :
                              st.log[i].key = k /\ st.log[i].is_anomaly
                         THEN <<now>> ELSE <<>>)]
        /\ ret' = [op |-> "ad_subscription_callback", samples |-> samples,
                   log |-> st.log]
        /\ UNCHANGED <<now, fp_residue, cccVars>>
        /\ UNCHANGED qosVars
        /\ UNCHANGED <<steerVars, mlVars>>

\* The detector after a run of indications that left no alert: no window, or a
\* window of one UE metric of 28 or 29 equal values, or of 30 values of spread 2.
InitADFlow ==
    /\ SteerIdle
    /\ CCCIdle
    /\ MLIdle
    /\ QoSIdle
    /\ metrics_history \in
           { EmptyDict }
           \cup { ("ue0_DRB.UEThpDl" :> w) :
                     w \in { Rep(100, min_history_for_detection - 2),
                             Rep(100, min_history_for_detection - 1),
                             Mix(15, 15) } }
    /\ inserted = metrics_history
    /\ last_alert_time = EmptyDict
    /\ anomalies_detected = 0
    /\ anomaly_details = EmptyDict
    /\ alert_times = EmptyDict
    /\ nUpd = 0
    /\ now = 0
    /\ fp_residue = FALSE
    /\ ret = [op |-> "init"]

NextADFlow ==
    \/ \E s \in ADIndications : ADSubscriptionCallback(s)
    \/ \E d \in TickDeltas : Tick(d)

SpecADFlow == InitADFlow /\ [][NextADFlow]_vars

(***************************************************************************)
(* QoSTrafficSteererXapp (qos_traffic_steerer.py)                          *)
(*                                                                         *)
(* A metric snapshot is a dict from metric names to lists of values, in    *)
(* units of 0.1.                                                           *)
(***************************************************************************)
DL == "DRB.UEThpDl"
UL == "DRB.UEThpUl"

\* line 26: deque(maxlen=50)
traffic_history_maxlen == 50

\* lines 17-23: bandwidth_mbps (in units of 0.1) and priority of each profile
qos_profiles ==
    [ voice         |-> [bandwidth |-> 1,   priority |-> 1],
      video         |-> [bandwidth |-> 50,  priority |-> 2],
      gaming        |-> [bandwidth |-> 10,  priority |-> 1],
      web           |-> [bandwidth |-> 100, priority |-> 3],
      file_transfer |-> [bandwidth |-> 500, priority |-> 4] ]

TrafficTypes == {"voice", "video", "gaming", "web", "file_transfer", "unknown"}

Snap(dl, ul) == (DL :> dl) @@ (UL :> ul)

sVoice   == Snap(<<2>>, <<1>>)                               \* 0.2 down, 0.1 up
sVideo   == Snap(<<450, 150, 450, 150, 300, 300>>, <<0, 100>>) \* mean 30, variance 150
sGameWeb == Snap(<<100>>, <<0, 100>>)                        \* 10 down; up 0 and 10
sWebLo   == Snap(<<10>>, <<1>>)                              \* exactly 1 down
sWebHi   == Snap(<<200>>, <<1>>)                             \* exactly 20 down
sWeb     == Snap(<<100>>, <<1>>)                             \* 10 down
sFile    == Snap(<<600>>, <<1>>)                             \* 60 down
sNoUl    == (DL :> <<2>>)                                    \* no uplink metric
sEmptyDl == Snap(<<>>, <<0>>)                                \* empty downlink list

Snapshots ==
    {sVoice, sVideo, sGameWeb, sWebLo, sWebHi, sWeb, sFile, sNoUl, sEmptyDl}

\* Traffic histories a UE can have after a run of classify_traffic calls.
InitTrafficHistories ==
    { <<>>, Rep(sVoice, 8), Rep(sVoice, traffic_history_maxlen - 1),
      Rep(sVoice, traffic_history_maxlen) }
    \cup { Rep(m, 9) : m \in Snapshots }

(***************************************************************************)
(* classify_traffic (qos_traffic_steerer.py:39-80)                         *)
(***************************************************************************)
\* lines 54-58: the values of one metric over the given entries, in order
RECURSIVE Extract(_, _)
Extract(entries, metric) ==
    IF entries = <<>> THEN <<>>
    ELSE (IF metric \in DOMAIN Head(entries) THEN Head(entries)[metric] ELSE <<>>)
             \o Extract(Tail(entries), metric)

\* lines 65-66: n^2 * (np.var(x) if len(x) > 1 else 0)
VarNumOrZero(st) == IF st.n > 1 THEN VarNum(st) ELSE 0

\* np.mean(x) < t / 10 and np.mean(x) > t / 10
AvgBelow(st, t) == st.S < t * st.n
AvgAbove(st, t) == st.S > t * st.n

\* variance < v / 100 and variance > v / 100
VarBelow(st, v) == VarNumOrZero(st) < v * st.n * st.n
VarAbove(st, v) == VarNumOrZero(st) > v * st.n * st.n

\* line 69: avg_dl < 0.5 and avg_ul < 0.5 and dl_variance < 1 and ul_variance < 1
IsVoice(d, u) ==
    AvgBelow(d, 5) /\ AvgBelow(u, 5) /\ VarBelow(d, 100) /\ VarBelow(u, 100)

\* line 71: avg_dl > 20 and dl_variance > 100
IsVideo(d, u) == AvgAbove(d, 200) /\ VarAbove(d, 10000)

\* line 73: avg_ul > 2 and ul_variance > 10
IsGaming(d, u) == AvgAbove(u, 20) /\ VarAbove(u, 1000)

\* line 75: avg_dl > 1 and avg_dl < 20
IsWeb_inclusive(d, u) == ~AvgBelow(d, 10) /\ ~AvgAbove(d, 200)

IsWeb(d, u) == AvgAbove(d, 10) /\ AvgBelow(d, 200)

\* line 77: avg_dl > 50
IsFileTransfer(d, u) == AvgAbove(d, 500)

\* lines 69-80: the if/elif chain
classify_rules_gaming_first(d, u) ==
    IF IsVoice(d, u) THEN "voice"
    ELSE IF IsGaming(d, u) THEN "gaming"
    ELSE IF IsVideo(d, u) THEN "video"
    ELSE IF IsWeb(d, u) THEN "web"
    ELSE IF IsFileTransfer(d, u) THEN "file_transfer"
    ELSE "unknown"

classify_rules(d, u) ==
    IF IsVoice(d, u) THEN "voice"
    ELSE IF IsVideo(d, u) THEN "video"
    ELSE IF IsGaming(d, u) THEN "gaming"
    ELSE IF IsWeb(d, u) THEN "web"
    ELSE IF IsFileTransfer(d, u) THEN "file_transfer"
    ELSE "unknown"

\* line 45: len(self.ue_traffic_history[ue_id]) < 10
TooFewEntries_off_by_one(history) == Len(history) < 9

TooFewEntries(history) == Len(history) < 10

\* lines 44-80: the label, from the history that already holds the new snapshot
classify_label(history) ==
    IF TooFewEntries(history) THEN "unknown"
    ELSE LET dl_throughputs == Extract(LastN(history, 10), DL)
             ul_throughputs == Extract(LastN(history, 10), UL)
         IN  IF dl_throughputs = <<>> \/ ul_throughputs = <<>> THEN "unknown"
             ELSE classify_rules(Stats(dl_throughputs), Stats(ul_throughputs))

\* line 42: self.ue_traffic_history[ue_id].append(metrics_data)
append_traffic(hist, ue_id, metrics_data) ==
    [hist EXCEPT ![ue_id] = deque_append(@, metrics_data, traffic_history_maxlen)]

(***************************************************************************)
(* check_qos_violations (qos_traffic_steerer.py:82-102)                    *)
(***************************************************************************)
\* 'X' in metrics_data and metrics_data['X']: the metric is there with a value
HasValues(metrics_data, metric) ==
    metric \in DOMAIN metrics_data /\ metrics_data[metric] # <<>>

\* lines 90-92: current_dl < bandwidth_mbps * 0.5
DlViolated(traffic_type, metrics_data) ==
    /\ HasValues(metrics_data, DL)
    /\ 2 * SeqSum(metrics_data[DL]) < qos_profiles[traffic_type].bandwidth

\* lines 96-98: current_ul < bandwidth_mbps * 0.3
UlViolated(traffic_type, metrics_data) ==
    /\ HasValues(metrics_data, UL)
    /\ 10 * SeqSum(metrics_data[UL]) < 3 * qos_profiles[traffic_type].bandwidth

\* How many times lines 93 and 99 run in one call: the first violated check
\* increments and returns.
violation_increments_no_return(traffic_type, metrics_data) ==
    IF traffic_type = "unknown" THEN 0
    ELSE (IF DlViolated(traffic_type, metrics_data) THEN 1 ELSE 0)
         + (IF UlViolated(traffic_type, metrics_data) THEN 1 ELSE 0)

violation_increments(traffic_type, metrics_data) ==
    IF traffic_type = "unknown" THEN 0
    ELSE IF DlViolated(traffic_type, metrics_data) THEN 1
    ELSE IF UlViolated(traffic_type, metrics_data) THEN 1
    ELSE 0

\* The return value with the profile of web taken for a type that has none.
check_qos_violations_default_profile(traffic_type, metrics_data) ==
    LET t == IF traffic_type = "unknown" THEN "web" ELSE traffic_type
    IN  DlViolated(t, metrics_data) \/ UlViolated(t, metrics_data)

\* The return value: True on the paths that increment (lines 94, 100).
check_qos_violations(traffic_type, metrics_data) ==
    IF traffic_type = "unknown" THEN FALSE
    ELSE IF DlViolated(traffic_type, metrics_data) THEN TRUE
    ELSE IF UlViolated(traffic_type, metrics_data) THEN TRUE
    ELSE FALSE

(***************************************************************************)
(* Actions of the traffic steerer                                          *)
(***************************************************************************)
\* The anomaly detector as constructed (anomaly_detector.py:18-29).
ADIdle ==
    /\ metrics_history = EmptyDict
    /\ inserted = EmptyDict
    /\ last_alert_time = EmptyDict
    /\ anomalies_detected = 0
    /\ anomaly_details = EmptyDict
    /\ alert_times = EmptyDict

InitClassify ==
    /\ SteerIdle
    /\ CCCIdle
    /\ MLIdle
    /\ ADIdle
    /\ ue_traffic_history \in [UEs -> InitTrafficHistories]
    /\ ue_traffic_history["ue1"] = <<>>
    /\ ue_qos_violations = [u \in UEs |-> 0]
    /\ nUpd = 0
    /\ now = 0
    /\ fp_residue = FALSE
    /\ ret = [op |-> "init"]

InitQoS ==
    /\ SteerIdle
    /\ CCCIdle
    /\ MLIdle
    /\ ADIdle
    /\ QoSIdle
    /\ nUpd = 0
    /\ now = 0
    /\ fp_residue = FALSE
    /\ ret = [op |-> "init"]

ClassifyTraffic(ue_id, metrics_data) ==
    /\ nUpd < MaxClassify
    /\ nUpd' = nUpd + 1
    /\ ue_traffic_history' = append_traffic(ue_traffic_history, ue_id, metrics_data)
    /\ ret' = [op |-> "classify_traffic", ue |-> ue_id, metrics |-> metrics_data,
               traffic_type |-> classify_label(ue_traffic_history'[ue_id])]
    /\ UNCHANGED <<ue_qos_violations, now, fp_residue, cccVars>>
    /\ UNCHANGED <<steerVars, mlVars>>
    /\ UNCHANGED <<metrics_history, last_alert_time, anomalies_detected,
                   anomaly_details, inserted, alert_times>>

CheckQosViolations(ue_id, traffic_type, metrics_data) ==
    /\ ue_qos_violations[ue_id] < MaxViolations
    /\ ue_qos_violations' =
           [ue_qos_violations EXCEPT
               ![ue_id] = @ + violation_increments(traffic_type, metrics_data)]
    /\ ret' = [op |-> "check_qos_violations", ue |-> ue_id,
               traffic_type |-> traffic_type, metrics |-> metrics_data,
               violated |-> check_qos_violations(traffic_type, metrics_data)]
    /\ UNCHANGED <<ue_traffic_history, nUpd, now, fp_residue, cccVars>>
    /\ UNCHANGED <<steerVars, mlVars>>
    /\ UNCHANGED <<metrics_history, last_alert_time, anomalies_detected,
                   anomaly_details, inserted, alert_times>>

NextClassify ==
    \E u \in UEs, m \in Snapshots : ClassifyTraffic(u, m)

SpecClassify == InitClassify /\ [][NextClassify]_vars

\* The snapshots check_qos_violations is called on: those of classify_traffic
\* and one whose downlink and uplink throughput are zero.
CheckSnapshots == Snapshots \cup {Snap(<<0>>, <<0>>)}

NextQoS ==
    \E u \in UEs, t \in TrafficTypes, m \in CheckSnapshots :
        CheckQosViolations(u, t, m)

SpecQoS == InitQoS /\ [][NextQoS]_vars

(***************************************************************************)
(* evaluate_cell_load (qos_traffic_steerer.py:104-130)                     *)
(*                                                                         *)
(* A load indicator is carried in units of 1/10000: a throughput sum of s  *)
(* Mbit/s (10 * s units of 0.1) gives the indicator s / 1000.0, that is    *)
(* 10 * s units.  A load is the pair <<sum of indicators, number of        *)
(* indicators * 10000>>; 0.0 is <<0, 1>>.                                  *)
(***************************************************************************)
CONN == "RRC.ConnEstabSucc"

\* The indicator 1.0.
LoadUnit == 10000

Min(a, b) == IF a < b THEN a ELSE b

\* lines 111-112, 115-116: min(sum(values) / 1000.0, 1.0)
throughput_indicator(values) == Min(SeqSum(values), LoadUnit)

\* lines 120-122: conn_rate is the first value (0 for an empty list); the
\* indicator is 1.0 - conn_rate / 100.0 if conn_rate > 0 else 0
conn_indicator(values) ==
    LET conn_rate == IF values # <<>> THEN values[1] ELSE 0
    IN  IF conn_rate > 0 THEN LoadUnit - 10 * conn_rate ELSE 0

\* lines 107-122: the indicators of the metrics present, in the order appended
load_indicators(metrics_data) ==
    (IF DL \in DOMAIN metrics_data
     THEN <<throughput_indicator(metrics_data[DL])>> ELSE <<>>)
    \o (IF UL \in DOMAIN metrics_data
        THEN <<throughput_indicator(metrics_data[UL])>> ELSE <<>>)
    \o (IF CONN \in DOMAIN metrics_data
        THEN <<conn_indicator(metrics_data[CONN])>> ELSE <<>>)

\* evaluate_cell_load taking a cell without indicators for a full one.
evaluate_cell_load_full_when_empty(metrics_data) ==
    LET li == load_indicators(metrics_data)
    IN  IF li # <<>> THEN <<SeqSum(li), Len(li) * LoadUnit>> ELSE <<1, 1>>

\* lines 124-130: np.mean(load_indicators), or 0.0 when there is none
evaluate_cell_load(metrics_data) ==
    LET li == load_indicators(metrics_data)
    IN  IF li # <<>> THEN <<SeqSum(li), Len(li) * LoadUnit>> ELSE <<0, 1>>

Cells == {"gnb_1", "gnb_2"}

\* Cell-level measData of an indication: nothing, 800 / 900 / 2000 Mbit/s
\* downlink, a negative downlink sum, connection counts 50, 100 and 150, an empty
\* connection list, and all three metrics together.
CellSnapshots ==
    { EmptyDict,
      (DL :> <<8000>>), (DL :> <<9000>>), (DL :> <<20000>>),
      (DL :> <<2000, -2500>>),
      (CONN :> <<500>>), (CONN :> <<1000>>), (CONN :> <<1500>>), (CONN :> <<>>),
      (DL :> <<9000>>) @@ (UL :> <<>>) @@ (CONN :> <<200>>) }

InitLoad ==
    /\ ADIdle
    /\ QoSIdle
    /\ SteerIdle
    /\ CCCIdle
    /\ MLIdle
    /\ nUpd = 0
    /\ now = 0
    /\ fp_residue = FALSE
    /\ ret = [op |-> "init"]

\* One call of evaluate_cell_load.
EvaluateCellLoad(e2_agent_id, metrics_data) ==
    /\ cell_load' = Put(cell_load, e2_agent_id, evaluate_cell_load(metrics_data))
    /\ ret' = [op |-> "evaluate_cell_load", cell |-> e2_agent_id,
               metrics |-> metrics_data,
               indicators |-> load_indicators(metrics_data),
               load |-> evaluate_cell_load(metrics_data)]
    /\ UNCHANGED <<last_steering_time, now, fp_residue, cccVars>>
    /\ UNCHANGED <<adVars, qosVars, mlVars>>

NextLoad ==
    \E c \in Cells, m \in CellSnapshots : EvaluateCellLoad(c, m)

SpecLoad == InitLoad /\ [][NextLoad]_vars

(***************************************************************************)
(* should_steer_ue and my_subscription_callback                            *)
(* (qos_traffic_steerer.py:132-205)                                        *)
(***************************************************************************)
load_threshold == 8            \* 0.8, in tenths
qos_violation_threshold == 3
steering_cooldown == 120

\* line 146: current_cell_load > self.load_threshold
ExceedsLoadThreshold(load) == 10 * load[1] > load_threshold * load[2]

\* line 147: self.qos_profiles.get(traffic_type, {'priority': 5})['priority']
priority_of(traffic_type) ==
    IF traffic_type \in DOMAIN qos_profiles
    THEN qos_profiles[traffic_type].priority ELSE 5

\* lines 134-139: (current_time - last_steer) < self.steering_cooldown
InSteeringCooldown_as_alert(lst, ue_id, current_time) ==
    ~(current_time - Get(lst, ue_id, 0) > steering_cooldown)

InSteeringCooldown(lst, ue_id, current_time) ==
    current_time - Get(lst, ue_id, 0) < steering_cooldown

\* lines 142-143
TooFewViolations_above(viol, ue_id) == viol[ue_id] <= qos_violation_threshold

TooFewViolations(viol, ue_id) == viol[ue_id] < qos_violation_threshold

\* lines 132-151
should_steer_ue(lst, viol, ue_id, current_cell_load, traffic_type, current_time) ==
    IF InSteeringCooldown(lst, ue_id, current_time) THEN FALSE
    ELSE IF TooFewViolations(viol, ue_id) THEN FALSE
    ELSE IF ExceedsLoadThreshold(current_cell_load)
         THEN priority_of(traffic_type) <= 2
         ELSE FALSE

\* line 203: self.ue_qos_violations[ue_id] = 0
reset_violations_keep(viol, ue_id) == viol

reset_violations(viol, ue_id) == [viol EXCEPT ![ue_id] = 0]

\* lines 168-203, the body of the loop for one UE of the indication.  st holds
\* the traffic histories, the violation counters, the steering times and the log
\* of what was done for the UEs processed so far.
process_ue(st, ue_id, metrics_summary, cell_load_now, current_time) ==
    LET hist == append_traffic(st.hist, ue_id, metrics_summary)
        traffic_type == classify_label(hist[ue_id])
        qos_violated == check_qos_violations(traffic_type, metrics_summary)
        viol == [st.viol EXCEPT
                    ![ue_id] = @ + violation_increments(traffic_type, metrics_summary)]
        steer == should_steer_ue(st.lst, viol, ue_id, cell_load_now, traffic_type,
                                 current_time)
    IN  [ hist |-> hist,
          viol |-> IF steer THEN reset_violations(viol, ue_id) ELSE viol,
          lst  |-> IF steer THEN Put(st.lst, ue_id, current_time) ELSE st.lst,
          log  |-> Append(st.log, [ue |-> ue_id, traffic_type |-> traffic_type,
                                   qos_violated |-> qos_violated,
                                   \* line 192: the counter when the decision is taken
                                   violations |-> viol[ue_id],
                                   \* line 135: last_steer
                                   last_steer |-> Get(st.lst, ue_id, 0),
                                   steered |-> steer]) ]

\* line 168: for ue_id, ue_meas_data in meas_data["ueMeasData"].items()
RECURSIVE process_ues(_, _, _, _)
process_ues(st, ue_meas, cell_load_now, current_time) ==
    IF ue_meas = <<>> THEN st
    ELSE process_ues(process_ue(st, Head(ue_meas)[1], Head(ue_meas)[2],
                                cell_load_now, current_time),
                     Tail(ue_meas), cell_load_now, current_time)

\* A sample without throughput (violates every profile's downlink floor).
sBad == Snap(<<0>>, <<0>>)

\* Traffic histories of ue0 and ue1 after 12 samples of voice and web, of
\* gaming and web, and after 12 samples of video for ue0 and 5 of web for ue1
\* (too few to classify ue1).
InitSteerHistories ==
    { ("ue0" :> Rep(sVoice, 12))   @@ ("ue1" :> Rep(sWeb, 12)),
      ("ue0" :> Rep(sGameWeb, 12)) @@ ("ue1" :> Rep(sWeb, 12)),
      ("ue0" :> Rep(sVideo, 12))   @@ ("ue1" :> Rep(sWeb, 5)) }

\* Indications: the cell-level measData (load 0.9 or exactly 0.8) and the
\* ueMeasData as the list of (UE, snapshot) the loop visits.
Indications ==
    { << (DL :> <<9000>>), <<<<"ue0", sBad>>>> >>,
      << (DL :> <<8000>>), <<<<"ue0", sBad>>>> >>,
      << (DL :> <<9000>>), <<<<"ue0", sVoice>>>> >>,
      << (DL :> <<9000>>), <<<<"ue0", sBad>>, <<"ue1", sBad>>>> >>,
      \* no top-level measData: line 163 passes {}
      << EmptyDict, <<<<"ue0", sBad>>>> >> }

SteerTickDeltas == {steering_cooldown - 1, steering_cooldown}

InitSteer ==
    /\ ADIdle
    /\ MLIdle
    /\ SteerIdle
    /\ CCCIdle
    /\ ue_traffic_history \in InitSteerHistories
    /\ ue_qos_violations \in [UEs -> {0, 2}]
    /\ ue_qos_violations["ue1"] = 0
    /\ nUpd = 0
    /\ now = 0
    /\ fp_residue = FALSE
    /\ ret = [op |-> "init"]

\* One indication: my_subscription_callback (lines 153-205).
SubscriptionCallback(e2_agent_id, cell_meas, ue_meas) ==
    LET load == evaluate_cell_load(cell_meas)
        st == process_ues([hist |-> ue_traffic_history, viol |-> ue_qos_violations,
                           lst |-> last_steering_time, log |-> <<>>],
                          ue_meas, load, now)
    IN  /\ nUpd < MaxCallbacks
        /\ nUpd' = nUpd + 1
        /\ cell_load' = Put(cell_load, e2_agent_id, load)
        /\ ue_traffic_history' = st.hist
        /\ ue_qos_violations' = st.viol
        /\ last_steering_time' = st.lst
        /\ ret' = [op |-> "my_subscription_callback", cell |-> e2_agent_id,
                   cell_meas |-> cell_meas, load |-> load, log |-> st.log]
        /\ UNCHANGED <<metrics_history, last_alert_time, anomalies_detected,
                       anomaly_details, inserted, alert_times>>
        /\ UNCHANGED <<mlVars, now, fp_residue, cccVars>>

\* time.time() advances between indications.
SteerTick(d) ==
    /\ now + d <= MaxSteerTime
    /\ now' = now + d
    /\ ret' = [op |-> "tick"]
    /\ UNCHANGED <<adVars, qosVars, steerVars, mlVars, fp_residue, cccVars>>

NextSteer ==
    \/ \E i \in Indications : SubscriptionCallback("gnb_1", i[1], i[2])
    \/ \E d \in SteerTickDeltas : SteerTick(d)

SpecSteer == InitSteer /\ [][NextSteer]_vars

(***************************************************************************)
(* MLResourceOptimizerXapp (ml_resource_optimizer.py)                      *)
(*                                                                         *)
(* A call either returns or raises; the outcome of a call is a record      *)
(* whose field raised is "none" or the name of the exception.  The stored  *)
(* histories are collections.deque objects (line 175), which do not        *)
(* support slices: history[-10:] raises TypeError.  A fitted scaler or     *)
(* model is the record [gen, n] of the train_models call that fitted it    *)
(* (its number, counted from 1) and the number of buffer entries it was    *)
(* fitted on; [gen |-> 0, n |-> 0] is the object as constructed.  What a   *)
(* fitted model predicts is an input of the predicting call.               *)
(***************************************************************************)
ml_max_history_length == 100
max_prb_ratio_low == 10
max_prb_ratio_high == 100
min_training_samples == 20
retrain_period == 50
max_training_samples == 1000
kept_training_samples == 500

Unfitted == [gen |-> 0, n |-> 0]

\* lines 53-54: metrics_data.get(metric, [0])[0] if metric in metrics_data else 0
current_value(metrics_data, metric) ==
    IF metric \notin DOMAIN metrics_data THEN [raised |-> "none", value |-> 0]
    ELSE IF metrics_data[metric] = <<>> THEN [raised |-> "IndexError", value |-> 0]
    ELSE [raised |-> "none", value |-> metrics_data[metric][1]]

\* lines 57-58, 62-63: history[-10:], history[-3:], history[-6:-3] on a deque
deque_slice(history) == "TypeError"

\* lines 53-68 (and 112-125, 147-160): the feature vector of a sample.  The
\* averages are taken over slices of the history whenever it is not empty; with
\* an empty history the averages and the trend are 0.
extract_features(history, metrics_data) ==
    LET current_dl == current_value(metrics_data, DL)
        current_ul == current_value(metrics_data, UL)
    IN  IF current_dl.raised # "none"
        THEN [raised |-> current_dl.raised, features |-> <<>>]
        ELSE IF current_ul.raised # "none"
        THEN [raised |-> current_ul.raised, features |-> <<>>]
        ELSE IF Len(history) > 0
        THEN [raised |-> deque_slice(history), features |-> <<>>]
        ELSE [raised |-> "none",
              features |-> <<current_dl.value, current_ul.value, 0, 0, 0,
                             Len(history)>>]

\* lines 76-79: keep the last 500 once the list holds more than 1000
compact(buffer) ==
    IF Len(buffer) > max_training_samples
    THEN LastN(buffer, kept_training_samples) ELSE buffer

\* lines 44-79.  buf is the training buffer [X, y_prb, y_ho].
collect_training_data(hist, buf, ue_id, metrics_data, prb_setting, ho_event) ==
    IF ue_id \notin DOMAIN hist THEN [raised |-> "none", buf |-> buf]
    ELSE LET f == extract_features(hist[ue_id], metrics_data)
         IN  IF f.raised # "none" THEN [raised |-> f.raised, buf |-> buf]
             ELSE [raised |-> "none",
                   buf |-> [X     |-> compact(Append(buf.X, f.features)),
                            y_prb |-> compact(Append(buf.y_prb, prb_setting)),
                            y_ho  |-> compact(Append(buf.y_ho, ho_event))]]

\* line 96: len(np.unique(y_ho)) > 1
TwoClasses(y_ho) == \E i \in 1..Len(y_ho) : y_ho[i] # y_ho[1]

\* line 83: len(self.training_data_X) < 20
TooFewSamples_off_by_one(X) == Len(X) <= min_training_samples

TooFewSamples(X) == Len(X) < min_training_samples

\* lines 81-101.  m is the model state [trained, scaler, prb, ho]; gen numbers
\* the call.
train_models(m, buf, gen) ==
    IF TooFewSamples(buf.X) THEN [result |-> FALSE, m |-> m]
    ELSE [result |-> TRUE,
          m |-> [trained |-> TRUE,
                 scaler  |-> [gen |-> gen, n |-> Len(buf.X)],
                 prb     |-> [gen |-> gen, n |-> Len(buf.X)],
                 ho      |-> IF TwoClasses(buf.y_ho)
                             THEN [gen |-> gen, n |-> Len(buf.X)] ELSE m.ho]]

\* lines 109 and 144: ue_id in self.ue_metrics_history and
\* len(self.ue_metrics_history[ue_id]) > 0.  The attribute is a plain dict
\* (line 20): the test and the lookup leave it as it is.
lookup_history_setdefault(hist, ue_id) ==
    IF ue_id \in DOMAIN hist THEN hist ELSE Put(hist, ue_id, <<>>)

lookup_history(hist, ue_id) == hist

\* predict_prb_setting with the low bound as the default of lines 106 and 136.
predict_prb_setting_default_low(hist, m, ue_id, metrics_data, predicted_prb) ==
    IF ~m.trained THEN [raised |-> "none", value |-> max_prb_ratio_low]
    ELSE IF ue_id \in DOMAIN hist /\ Len(hist[ue_id]) > 0
    THEN LET f == extract_features(hist[ue_id], metrics_data)
         IN  IF f.raised # "none" THEN [raised |-> f.raised, value |-> 0]
             ELSE IF 2 * predicted_prb > max_prb_ratio_high + max_prb_ratio_low
             THEN [raised |-> "none", value |-> max_prb_ratio_high]
             ELSE [raised |-> "none", value |-> max_prb_ratio_low]
    ELSE [raised |-> "none", value |-> max_prb_ratio_low]

\* lines 103-136.  predicted_prb is what self.prb_predictor.predict returns.
predict_prb_setting(hist, m, ue_id, metrics_data, predicted_prb) ==
    IF ~m.trained THEN [raised |-> "none", value |-> max_prb_ratio_high]
    ELSE IF ue_id \in DOMAIN hist /\ Len(hist[ue_id]) > 0
    THEN LET f == extract_features(hist[ue_id], metrics_data)
         IN  IF f.raised # "none" THEN [raised |-> f.raised, value |-> 0]
             ELSE IF 2 * predicted_prb > max_prb_ratio_high + max_prb_ratio_low
             THEN [raised |-> "none", value |-> max_prb_ratio_high]
             ELSE [raised |-> "none", value |-> max_prb_ratio_low]
    ELSE [raised |-> "none", value |-> max_prb_ratio_high]

\* lines 138-170.  ho_probability is predict_proba(...)[0][1], in tenths.
predict_handover_need(hist, m, ue_id, metrics_data, ho_probability) ==
    IF ~m.trained THEN [raised |-> "none", value |-> FALSE]
    ELSE IF ue_id \in DOMAIN hist /\ Len(hist[ue_id]) > 0
    THEN LET f == extract_features(hist[ue_id], metrics_data)
         IN  IF f.raised # "none" THEN [raised |-> f.raised, value |-> FALSE]
             ELSE IF m.ho.gen # 0
             THEN [raised |-> "none", value |-> ho_probability > 7]
             ELSE [raised |-> "none", value |-> FALSE]
    ELSE [raised |-> "none", value |-> FALSE]

\* line 180: len(X) % 50 == 0 and len(X) > 20
RetrainDue(X) == Len(X) % retrain_period = 0 /\ Len(X) > min_training_samples

\* lines 172-181: returns the histories, the model state and whether train_models
\* was called.
ml_update_metrics_history(hist, m, buf, ue_id, metrics_data, gen) ==
    [ hist |-> Put(hist, ue_id,
                   deque_append(Get(hist, ue_id, <<>>), metrics_data,
                                ml_max_history_length)),
      retrained |-> RetrainDue(buf.X),
      m |-> IF RetrainDue(buf.X) THEN train_models(m, buf, gen).m ELSE m ]

(***************************************************************************)
(* Actions of the ML optimizer                                             *)
(***************************************************************************)
MLModel == [trained |-> model_trained, scaler |-> scaler, prb |-> prb_predictor,
            ho |-> handover_predictor]

TrainingBuffer == [X |-> training_data_X, y_prb |-> training_data_y_prb,
                   y_ho |-> training_data_y_ho]

\* Snapshots of a UE: both throughputs, an empty downlink list, no metric.
MLSnapshots == { Snap(<<50>>, <<10>>), Snap(<<>>, <<10>>), EmptyDict }

\* What prb_predictor.predict and predict_proba return (the latter in tenths).
RegressionOutputs == {55, 56}
HoProbabilities == {7, 8}

\* A training buffer of n aligned entries, entry i carrying the feature vector
\* <<i, 0, 0, 0, 0, 0>> and the target 100; the labels are all 0, or alternate.
InitBuffer(n, mixed) ==
    [ X     |-> [i \in 1..n |-> <<i, 0, 0, 0, 0, 0>>],
      y_prb |-> [i \in 1..n |-> max_prb_ratio_high],
      y_ho  |-> [i \in 1..n |-> IF mixed THEN i % 2 ELSE 0] ]

InitBufferSizes ==
    {0, min_training_samples - 1, min_training_samples, retrain_period,
     max_training_samples}

\* The optimizer as constructed, with a training buffer as lines 71-79 leave it
\* after n appends.  (From the empty buffer no call of this model appends: the
\* buffers are there so that train_models, the predictions and line 180 are
\* exercised on every buffer size they distinguish.)
InitML ==
    /\ ADIdle
    /\ QoSIdle
    /\ SteerIdle
    /\ CCCIdle
    /\ ue_metrics_history = EmptyDict
    /\ model_trained = FALSE
    /\ scaler = Unfitted
    /\ prb_predictor = Unfitted
    /\ handover_predictor = Unfitted
    /\ fits = 0
    /\ since_retrain = 0
    /\ train_pc = "idle"
    /\ \E n \in InitBufferSizes, mixed \in BOOLEAN :
          /\ training_data_X = InitBuffer(n, mixed).X
          /\ training_data_y_prb = InitBuffer(n, mixed).y_prb
          /\ training_data_y_ho = InitBuffer(n, mixed).y_ho
    /\ nUpd = 0
    /\ now = 0
    /\ fp_residue = FALSE
    /\ ret = [op |-> "init"]

\* What no operation of the optimizer touches.
MLFrame ==
    /\ UNCHANGED <<metrics_history, last_alert_time, anomalies_detected,
                   anomaly_details, inserted, alert_times>>
    /\ UNCHANGED <<qosVars, steerVars, now, fp_residue, train_pc, cccVars>>

SetModel(m) ==
    /\ model_trained' = m.trained
    /\ scaler' = m.scaler
    /\ prb_predictor' = m.prb
    /\ handover_predictor' = m.ho

SetBuffer(buf) ==
    /\ training_data_X' = buf.X
    /\ training_data_y_prb' = buf.y_prb
    /\ training_data_y_ho' = buf.y_ho

\* One call of update_metrics_history (lines 172-181), train_models included.
MLUpdateMetricsHistory(ue_id, metrics_data) ==
    LET r == ml_update_metrics_history(ue_metrics_history, MLModel, TrainingBuffer,
                                       ue_id, metrics_data, fits + 1)
    IN  /\ nUpd < MaxMLUpdates
        /\ nUpd' = nUpd + 1
        /\ ue_metrics_history' = r.hist
        /\ SetModel(r.m)
        /\ fits' = IF r.retrained THEN fits + 1 ELSE fits
        /\ since_retrain' = IF r.retrained THEN 0 ELSE since_retrain
        /\ ret' = [op |-> "ml_update_metrics_history", ue |-> ue_id,
                   metrics |-> metrics_data, retrained |-> r.retrained]
        /\ UNCHANGED <<training_data_X, training_data_y_prb, training_data_y_ho>>
        /\ MLFrame

\* One call of collect_training_data (lines 44-79).
CollectTrainingData(ue_id, metrics_data, prb_setting, ho_event) ==
    LET r == collect_training_data(ue_metrics_history, TrainingBuffer, ue_id,
                                   metrics_data, prb_setting, ho_event)
    IN  /\ SetBuffer(r.buf)
        /\ since_retrain' =
               IF r.buf # TrainingBuffer THEN since_retrain + 1 ELSE since_retrain
        /\ ret' = [op |-> "collect_training_data", ue |-> ue_id,
                   metrics |-> metrics_data, prb_setting |-> prb_setting,
                   ho_event |-> ho_event, raised |-> r.raised]
        /\ UNCHANGED <<ue_metrics_history, model_trained, scaler, prb_predictor,
                       handover_predictor, fits, nUpd>>
        /\ MLFrame

\* One call of train_models (lines 81-101).
TrainModels ==
    LET r == train_models(MLModel, TrainingBuffer, fits + 1)
    IN  /\ fits < MaxFits
        /\ SetModel(r.m)
        /\ fits' = IF r.result THEN fits + 1 ELSE fits
        /\ since_retrain' = IF r.result THEN 0 ELSE since_retrain
        /\ ret' = [op |-> "train_models", result |-> r.result]
        /\ UNCHANGED <<ue_metrics_history, training_data_X, training_data_y_prb,
                       training_data_y_ho, nUpd>>
        /\ MLFrame

\* What a prediction leaves of the optimizer: it assigns no attribute.
PredictFrame(ue_id) ==
    /\ ue_metrics_history' = lookup_history(ue_metrics_history, ue_id)
    /\ UNCHANGED <<model_trained, training_data_X, training_data_y_prb,
                   training_data_y_ho, scaler, prb_predictor, handover_predictor,
                   fits, since_retrain, train_pc, nUpd>>

\* One call of predict_prb_setting (lines 103-136).
PredictPrbSetting(ue_id, metrics_data, predicted_prb) ==
    LET r == predict_prb_setting(ue_metrics_history, MLModel, ue_id, metrics_data,
                                 predicted_prb)
    IN  /\ ret' = [op |-> "predict_prb_setting", ue |-> ue_id,
                   metrics |-> metrics_data, predicted_prb |-> predicted_prb,
                   raised |-> r.raised, value |-> r.value]
        /\ PredictFrame(ue_id)
        /\ MLFrame

\* One call of predict_handover_need (lines 138-170).
PredictHandoverNeed(ue_id, metrics_data, ho_probability) ==
    LET r == predict_handover_need(ue_metrics_history, MLModel, ue_id, metrics_data,
                                   ho_probability)
    IN  /\ ret' = [op |-> "predict_handover_need", ue |-> ue_id,
                   metrics |-> metrics_data, ho_probability |-> ho_probability,
                   raised |-> r.raised, value |-> r.value]
        /\ PredictFrame(ue_id)
        /\ MLFrame

NextML ==
    \/ \E u \in UEs, m \in MLSnapshots : MLUpdateMetricsHistory(u, m)
    \/ \E u \in UEs, m \in MLSnapshots :
           CollectTrainingData(u, m, max_prb_ratio_high, 0)
    \/ TrainModels
    \/ \E u \in UEs, m \in MLSnapshots, p \in RegressionOutputs :
           PredictPrbSetting(u, m, p)
    \/ \E u \in UEs, m \in MLSnapshots, p \in HoProbabilities :
           PredictHandoverNeed(u, m, p)

SpecML == InitML /\ [][NextML]_vars

(***************************************************************************)
(* The per-sample flow of the ML optimizer                                 *)
(* (ml_resource_optimizer.py:183-226)                                      *)
(***************************************************************************)
\* lines 205-224 for one UE of the indication: update the history (and possibly
\* retrain), predict, send the control request, collect the training sample.
\* An exception ends the callback; what was written before it stays.
process_ml_ue(st, ue_id, metrics_summary, predicted_prb) ==
    LET u == ml_update_metrics_history(st.hist, st.m, st.buf, ue_id,
                                       metrics_summary, st.fits + 1)
        p == predict_prb_setting(u.hist, u.m, ue_id, metrics_summary, predicted_prb)
        c == collect_training_data(u.hist, st.buf, ue_id, metrics_summary,
                                   p.value, 0)
        after_update == [st EXCEPT !.hist = u.hist, !.m = u.m,
                                   !.fits = IF u.retrained THEN @ + 1 ELSE @,
                                   !.since = IF u.retrained THEN 0 ELSE @,
                                   !.retrained = Append(@, u.retrained)]
    IN  IF p.raised # "none"
        THEN [after_update EXCEPT !.raised = p.raised,
                                  !.raised_in = "predict_prb_setting"]
        ELSE IF c.raised # "none"
        THEN [after_update EXCEPT !.sent = Append(@, p.value),
                                  !.raised = c.raised,
                                  !.raised_in = "collect_training_data"]
        ELSE [after_update EXCEPT !.sent = Append(@, p.value),
                                  !.buf = c.buf,
                                  !.since = IF c.buf # st.buf THEN @ + 1 ELSE @]

\* line 193: for ue_id, ue_meas_data in meas_data["ueMeasData"].items()
RECURSIVE process_ml_ues(_, _, _)
process_ml_ues(st, ue_meas, predicted_prb) ==
    IF ue_meas = <<>> \/ st.raised # "none" THEN st
    ELSE process_ml_ues(process_ml_ue(st, Head(ue_meas)[1], Head(ue_meas)[2],
                                      predicted_prb),
                        Tail(ue_meas), predicted_prb)

\* The ueMeasData of the indications.
MLIndications ==
    { <<<<u, m>>>> : u \in UEs, m \in MLSnapshots }
    \cup { <<<<"ue0", Snap(<<50>>, <<10>>)>>, <<"ue1", Snap(<<50>>, <<10>>)>>>> }

\* One indication: my_subscription_callback (lines 183-226).
MLSubscriptionCallback(ue_meas, predicted_prb) ==
    LET st == process_ml_ues([hist |-> ue_metrics_history, m |-> MLModel,
                              buf |-> TrainingBuffer, fits |-> fits,
                              since |-> since_retrain, retrained |-> <<>>,
                              sent |-> <<>>, raised |-> "none", raised_in |-> "none"],
                             ue_meas, predicted_prb)
    IN  /\ nUpd < MaxMLSamples
        /\ nUpd' = nUpd + 1
        /\ ue_metrics_history' = st.hist
        /\ SetModel(st.m)
        /\ SetBuffer(st.buf)
        /\ fits' = st.fits
        /\ since_retrain' = st.since
        /\ ret' = [op |-> "ml_subscription_callback", ue_meas |-> ue_meas,
                   retrained |-> st.retrained, sent |-> st.sent,
                   raised |-> st.raised, raised_in |-> st.raised_in,
                   since_retrain |-> since_retrain, fits |-> fits]
        /\ MLFrame

NextMLFlow ==
    \E i \in MLIndications, p \in RegressionOutputs : MLSubscriptionCallback(i, p)

SpecMLFlow == InitML /\ [][NextMLFlow]_vars

(***************************************************************************)
(* train_models beside the predictions (ml_resource_optimizer.py:81-170)   *)
(*                                                                         *)
(* The class takes no lock.  In a host that delivers calls on more than    *)
(* one thread, a thread inside train_models is between two of its          *)
(* statements while another thread runs a prediction.  train_models is     *)
(* taken statement by statement: line 90 refits the scaler in place, line  *)
(* 93 the regression model, lines 96-97 the classifier, line 99 sets the   *)
(* flag.  A prediction is one step: what it reads is what is there then.   *)
(***************************************************************************)
MaxConcFits == 2       \* train_models calls per run of SpecMLConc

\* What the steps of train_models and the predictions leave alone.
ConcFrame ==
    /\ UNCHANGED <<metrics_history, last_alert_time, anomalies_detected,
                   anomaly_details, inserted, alert_times>>
    /\ UNCHANGED <<qosVars, steerVars, now, fp_residue, cccVars>>
    /\ UNCHANGED <<training_data_X, training_data_y_prb, training_data_y_ho,
                   since_retrain>>

\* lines 83-88: the call returns False on a short buffer, else goes on to line 90
TrainEnter ==
    /\ train_pc = "idle"
    /\ fits < MaxConcFits
    /\ IF TooFewSamples(training_data_X)
       THEN /\ train_pc' = "idle"
            /\ ret' = [op |-> "train_models", result |-> FALSE]
       ELSE /\ train_pc' = "line90"
            /\ ret' = [op |-> "train_models_enter"]
    /\ UNCHANGED <<ue_metrics_history, model_trained, scaler, prb_predictor,
                   handover_predictor, fits, nUpd>>
    /\ ConcFrame

\* line 90: X_scaled = self.scaler.fit_transform(X)
TrainFitScaler ==
    /\ train_pc = "line90"
    /\ scaler' = [gen |-> fits + 1, n |-> Len(training_data_X)]
    /\ train_pc' = "line93"
    /\ ret' = [op |-> "train_models_line90"]
    /\ UNCHANGED <<ue_metrics_history, model_trained, prb_predictor,
                   handover_predictor, fits, nUpd>>
    /\ ConcFrame

\* line 93: self.prb_predictor.fit(X_scaled, y_prb)
TrainFitPrb ==
    /\ train_pc = "line93"
    /\ prb_predictor' = [gen |-> fits + 1, n |-> Len(training_data_X)]
    /\ train_pc' = "line96"
    /\ ret' = [op |-> "train_models_line93"]
    /\ UNCHANGED <<ue_metrics_history, model_trained, scaler, handover_predictor,
                   fits, nUpd>>
    /\ ConcFrame

\* lines 96-97: the classifier is fitted if the labels hold two classes
TrainFitHo ==
    /\ train_pc = "line96"
    /\ handover_predictor' =
           IF TwoClasses(training_data_y_ho)
           THEN [gen |-> fits + 1, n |-> Len(training_data_X)]
           ELSE handover_predictor
    /\ train_pc' = "line99"
    /\ ret' = [op |-> "train_models_line96"]
    /\ UNCHANGED <<ue_metrics_history, model_trained, scaler, prb_predictor,
                   fits, nUpd>>
    /\ ConcFrame

\* lines 99-101: self.model_trained = True; return True
TrainSetFlag ==
    /\ train_pc = "line99"
    /\ model_trained' = TRUE
    /\ fits' = fits + 1
    /\ train_pc' = "idle"
    /\ ret' = [op |-> "train_models", result |-> TRUE]
    /\ UNCHANGED <<ue_metrics_history, scaler, prb_predictor, handover_predictor,
                   nUpd>>
    /\ ConcFrame

\* lines 172-181: the history of the UE gets the snapshot; where line 180 holds
\* the calling thread goes on into train_models (no other thread being there).
ConcUpdateMetricsHistory(ue_id, metrics_data) ==
    /\ nUpd < MaxMLUpdates
    /\ RetrainDue(training_data_X) => (train_pc = "idle" /\ fits < MaxConcFits)
    /\ nUpd' = nUpd + 1
    /\ train_pc' = IF RetrainDue(training_data_X) THEN "line90" ELSE train_pc
    /\ ue_metrics_history' =
           ml_update_metrics_history(ue_metrics_history, MLModel, TrainingBuffer,
                                     ue_id, metrics_data, fits + 1).hist
    /\ ret' = [op |-> "ml_update_metrics_history", ue |-> ue_id,
               metrics |-> metrics_data,
               retrained |-> RetrainDue(training_data_X)]
    /\ UNCHANGED <<model_trained, scaler, prb_predictor, handover_predictor, fits>>
    /\ ConcFrame

\* A prediction on another thread, wherever train_models is.
ConcPredictPrbSetting(ue_id, metrics_data, predicted_prb) ==
    LET r == predict_prb_setting(ue_metrics_history, MLModel, ue_id, metrics_data,
                                 predicted_prb)
    IN  /\ ret' = [op |-> "predict_prb_setting", ue |-> ue_id,
                   metrics |-> metrics_data, predicted_prb |-> predicted_prb,
                   raised |-> r.raised, value |-> r.value]
        /\ PredictFrame(ue_id)
        /\ ConcFrame

ConcPredictHandoverNeed(ue_id, metrics_data, ho_probability) ==
    LET r == predict_handover_need(ue_metrics_history, MLModel, ue_id, metrics_data,
                                   ho_probability)
    IN  /\ ret' = [op |-> "predict_handover_need", ue |-> ue_id,
                   metrics |-> metrics_data, ho_probability |-> ho_probability,
                   raised |-> r.raised, value |-> r.value]
        /\ PredictFrame(ue_id)
        /\ ConcFrame

NextMLConc ==
    \/ TrainEnter
    \/ TrainFitScaler
    \/ TrainFitPrb
    \/ TrainFitHo
    \/ TrainSetFlag
    \/ \E u \in UEs, m \in MLSnapshots : ConcUpdateMetricsHistory(u, m)
    \/ \E u \in UEs, m \in MLSnapshots, p \in RegressionOutputs :
           ConcPredictPrbSetting(u, m, p)
    \/ \E u \in UEs, m \in MLSnapshots, q \in HoProbabilities :
           ConcPredictHandoverNeed(u, m, q)

SpecMLConc == InitML /\ [][NextMLConc]_vars

(***************************************************************************)
(* e2sm_ccc_module (lib/e2sm_ccc_module.py)                                *)
(*                                                                         *)
(* A control request is the record of what _build_ric_control_request puts *)
(* into the message: the requestor id, the three ratios of the JSON        *)
(* control message and the acknowledgement byte.                           *)
(***************************************************************************)
MaxCCCRequests == 2    \* calls per run of SpecCCC

Max(a, b) == IF a > b THEN a ELSE b

\* lines 60-62: max(0, min(ratio, 100))
clamp_ratio_upper_only(ratio) == Min(ratio, 100)

clamp_ratio(ratio) == Max(0, Min(ratio, 100))

\* lines 29-32: the next requestor id
get_requestor_id(id) == (id + 1) % 255

\* lines 52-139.  id is self.requestorID and sent what parent.rmr_send was given
\* so far.  The message is built from bytes (line 49), which raises ValueError
\* when ack_request << 6 is not a byte.
send_control_request_style_2_o_rrm_policy_ratio(id, sent, e2_node_id, min_prb_ratio, max_prb_ratio, dedicated_prb_ratio, ack_request) ==
    LET min_c == clamp_ratio(min_prb_ratio)
        max_c == clamp_ratio(max_prb_ratio)
        ded_c == clamp_ratio(dedicated_prb_ratio)
    IN  IF max_c < min_c
        THEN [raised |-> "none", requestorID |-> id, sent |-> sent]
        ELSE IF ack_request * 64 > 255
        THEN [raised |-> "ValueError", requestorID |-> get_requestor_id(id),
              sent |-> sent]
        ELSE [raised |-> "none", requestorID |-> get_requestor_id(id),
              sent |-> Append(sent,
                         [e2_node_id |-> e2_node_id,
                          requestorID |-> get_requestor_id(id),
                          rRMPolicyMinRatio |-> min_c,
                          rRMPolicyMaxRatio |-> max_c,
                          rRMPolicyDedicatedRatio |-> ded_c,
                          ack |-> ack_request * 64])]

\* Ratios below, inside and above [0, 100]; ack_request is 0 or 1.
MinRatios == {-10, 50, 150}
MaxRatios == {-10, 30, 50, 150}
DedicatedRatios == {-10, 20, 150}
AckRequests == {0, 1}

\* The module as constructed, or after 253 requests (the id wraps at 255).
InitCCC ==
    /\ ADIdle
    /\ QoSIdle
    /\ SteerIdle
    /\ MLIdle
    /\ requestorID \in {0, 253}
    /\ rmr_sent = <<>>
    /\ nUpd = 0
    /\ now = 0
    /\ fp_residue = FALSE
    /\ ret = [op |-> "init"]

\* One call of send_control_request_style_2_o_rrm_policy_ratio.
SendControlRequest(e2_node_id, min_prb_ratio, max_prb_ratio, dedicated_prb_ratio, ack_request) ==
    LET r == send_control_request_style_2_o_rrm_policy_ratio(
                 requestorID, rmr_sent, e2_node_id, min_prb_ratio, max_prb_ratio,
                 dedicated_prb_ratio, ack_request)
    IN  /\ nUpd < MaxCCCRequests
        /\ nUpd' = nUpd + 1
        /\ requestorID' = r.requestorID
        /\ rmr_sent' = r.sent
        /\ ret' = [op |-> "send_control_request", e2_node_id |-> e2_node_id,
                   min_prb_ratio |-> min_prb_ratio, max_prb_ratio |-> max_prb_ratio,
                   dedicated_prb_ratio |-> dedicated_prb_ratio,
                   ack_request |-> ack_request, raised |-> r.raised]
        /\ UNCHANGED <<metrics_history, last_alert_time, anomalies_detected,
                       anomaly_details, inserted, alert_times>>
        /\ UNCHANGED <<qosVars, steerVars, mlVars, now, fp_residue>>

NextCCC ==
    \E mn \in MinRatios, mx \in MaxRatios, d \in DedicatedRatios, a \in AckRequests :
        SendControlRequest("gnb_1", mn, mx, d, a)

SpecCCC == InitCCC /\ [][NextCCC]_vars

(***************************************************************************)
(* The length encoding of the control module (lib/e2sm_ccc_module.py:8-15) *)
(* and the message built with it (lines 34-50).  Bytes are naturals below  *)
(* 256 and a byte string is a sequence of them.  The JSON texts of lines   *)
(* 136-137 are carried with their exact length; their characters, all      *)
(* ASCII, are carried as one filler character.                             *)
(***************************************************************************)
MaxLowLength == 830     \* encode_length is applied to 0 .. MaxLowLength
MaxBuildCalls == 2      \* messages built per run of SpecEncode

\* line 13: list(length.to_bytes(2, byteorder='big')), for length < 65536
to_bytes_2_big(length) == <<length \div 256, length % 256>>

\* line 14: (b & 0b00111111) | 0b10000000
force_top_bits(b) == (b % 64) + 128

\* lines 8-15
encode_length(length) ==
    IF length < 256
    THEN <<length>>
    ELSE LET b == to_bytes_2_big(length)
         IN  <<force_top_bits(b[1]), b[2]>>

\* line 21
ran_func_id == 4

\* str(n) of json.dumps for an integer ratio in 0 .. 100: its number of digits
Digits(n) == IF n < 10 THEN 1 ELSE IF n < 100 THEN 2 ELSE 3

\* A character of a JSON text ('{').
JsonChar == 123

\* line 136: json.dumps(control_header_json).encode('utf-8'), 44 characters
ccc_control_hdr == Rep(JsonChar, 44)

\* line 137: json.dumps(control_msg_json).encode('utf-8'); 730 characters
\* beside the three ratios, each of which is written twice (lines 104-106
\* and 124-126)
ccc_control_msg(min_prb_ratio, max_prb_ratio, dedicated_prb_ratio) ==
    Rep(JsonChar, 730 + 2 * (Digits(min_prb_ratio) + Digits(max_prb_ratio)
                             + Digits(dedicated_prb_ratio)))

\* lines 34-50.  id is self.requestorID.  bytes(...) of line 49 raises
\* ValueError when ack_request << 6 is not a byte.
_build_ric_control_request(id, control_header, control_msg, ack_request) ==
    LET rid == get_requestor_id(id)
        control_header_len == Len(control_header)
        control_msg_len == Len(control_msg)
        total_len == 32 + control_header_len + control_msg_len + 1 + 2
        msg == <<0, 4, 0>> \o encode_length(total_len) \o <<0, 0, 5, 0, 29>>
               \o <<0, 5, 0, 0, rid, 0, 0>>
               \o <<0, 5, 0, 2, 0, ran_func_id>>
               \o <<0, 22, 0>> \o encode_length(control_header_len + 1)
               \o encode_length(control_header_len) \o control_header
               \o <<0, 23, 0>> \o encode_length(control_msg_len + 2)
               \o encode_length(control_msg_len) \o control_msg
               \o <<0, 21, 0, 1, ack_request * 64>>
    IN  IF ack_request * 64 > 255
        THEN [raised |-> "ValueError", requestorID |-> rid, payload |-> <<>>]
        ELSE [raised |-> "none", requestorID |-> rid, payload |-> msg]

\* The lengths encode_length is applied to: the low ones, which cover the
\* one-byte encodings and the lengths of the messages built here, and those
\* around 16384, where two bytes with two forced bits run out.
EncodeLengths == (0 .. MaxLowLength) \cup (16128 .. 16640)

\* The texts line 138 passes on: the header of line 136, and the message of
\* line 137 for ratios as lines 60-66 leave them.
ControlHeaders == {ccc_control_hdr}
SentRatios == {r \in {<<clamp_ratio(mn), clamp_ratio(mx), clamp_ratio(d)>> : mn \in MinRatios, mx \in MaxRatios, d \in DedicatedRatios} : r[2] >= r[1]}
ControlMsgs == {ccc_control_msg(r[1], r[2], r[3]) : r \in SentRatios}

\* One call of encode_length.
EncodeLength(length) ==
    /\ ret' = [op |-> "encode_length", length |-> length,
               bytes |-> encode_length(length)]
    /\ UNCHANGED <<metrics_history, last_alert_time, anomalies_detected,
                   anomaly_details, inserted, alert_times>>
    /\ UNCHANGED <<qosVars, steerVars, mlVars, cccVars, nUpd, now, fp_residue>>

\* One call of _build_ric_control_request.
BuildRicControlRequest(control_header, control_msg, ack_request) ==
    LET r == _build_ric_control_request(requestorID, control_header, control_msg, ack_request)
    IN  /\ nUpd < MaxBuildCalls
        /\ nUpd' = nUpd + 1
        /\ requestorID' = r.requestorID
        /\ ret' = [op |-> "build_ric_control_request",
                   control_header_len |-> Len(control_header),
                   control_msg_len |-> Len(control_msg),
                   ack_request |-> ack_request, raised |-> r.raised,
                   payload |-> r.payload]
        /\ UNCHANGED <<metrics_history, last_alert_time, anomalies_detected,
                       anomaly_details, inserted, alert_times>>
        /\ UNCHANGED <<qosVars, steerVars, mlVars, rmr_sent, now, fp_residue>>

NextEncode ==
    \/ \E length \in EncodeLengths : EncodeLength(length)
    \/ \E h \in ControlHeaders, m \in ControlMsgs, a \in AckRequests :
           BuildRicControlRequest(h, m, a)

SpecEncode == InitCCC /\ [][NextEncode]_vars

(***************************************************************************)
(* Properties of the metric store and the anomaly detector                 *)
(***************************************************************************)
\* A step that is a call of detect_anomaly (every action records its name in ret).
IsDetectStep == ret'.op = "detect_anomaly"

\* The window detect_anomaly reads for the key of the call recorded in r.
WindowOf(r) == Get(metrics_history, r.key, <<>>)

IsConstant(h) == \A i \in 1..Len(h) : h[i] = h[1]

\* C1: after any sequence of updates every series has length <= its capacity and
\* is exactly the last min(n, capacity) values inserted for its key, oldest first
\* (so an insert into a full series drops exactly the oldest value).
C1_RingBuffer ==
    /\ DOMAIN metrics_history = DOMAIN inserted
    /\ \A k \in DOMAIN metrics_history :
         /\ Len(metrics_history[k]) <= max_history_length
         /\ Len(metrics_history[k]) =
                IF Len(inserted[k]) < max_history_length
                THEN Len(inserted[k]) ELSE max_history_length
         /\ \A i \in 1..Len(metrics_history[k]) :
                metrics_history[k][i] =
                    inserted[k][Len(inserted[k]) - Len(metrics_history[k]) + i]

\* C1 witness: a key that received more values than the capacity, the last of
\* them by an update that evicted a different value.
C1_Witness ==
    /\ ret.op = "update_metrics_history"
    /\ Len(inserted[ret.key]) > max_history_length + 1
    /\ Len(metrics_history[ret.key]) = max_history_length
    /\ inserted[ret.key][Len(inserted[ret.key]) - max_history_length] # ret.value

\* C2: with fewer than min_history_for_detection stored values (also for a key
\* never seen) detect_anomaly returns (False, 0.0) whatever the current value is
\* and changes neither last_alert_time nor the anomaly counters.
C2_InsufficientHistory ==
    [][ (IsDetectStep /\ Len(WindowOf(ret')) < min_history_for_detection)
          => /\ ret'.is_anomaly = FALSE
             /\ ret'.z_score = <<0, 1>>
             /\ UNCHANGED <<last_alert_time, anomalies_detected, anomaly_details>>
      ]_vars

\* C2 witness: a call on a 29-value window of non-zero spread with a value far
\* from its mean, made when no cooldown is running.
C2_Witness ==
    /\ ret.op = "detect_anomaly"
    /\ Len(WindowOf(ret)) = min_history_for_detection - 1
    /\ ~IsConstant(WindowOf(ret))
    /\ ret.value = 200
    /\ now > alert_cooldown
    /\ ret.key \notin DOMAIN last_alert_time

\* C3: on a window of >= min_history_for_detection identical values
\* detect_anomaly returns (False, 0.0) for every current value and records no alert.
\* The code does so when the values are representable; on 30 values of 0.1 whose
\* mean carries a rounding residue it does not (C3_FalseAlert).
C3_ZeroStdGuard ==
    [][ (/\ IsDetectStep
         /\ Len(WindowOf(ret')) >= min_history_for_detection
         /\ IsConstant(WindowOf(ret')))
          => /\ ret'.is_anomaly = FALSE
             /\ ret'.z_score = <<0, 1>>
             /\ UNCHANGED <<last_alert_time, anomalies_detected, anomaly_details>>
      ]_vars

\* The run that violates C3: 30 values of 0.1, current value 20.0, and the call
\* returned True and recorded an alert.
C3_FalseAlert ==
    /\ ret.op = "detect_anomaly"
    /\ WindowOf(ret) = Rep(1, min_history_for_detection)
    /\ ret.value = 200
    /\ ret.is_anomaly
    /\ anomalies_detected = 1

\* What the guard does achieve: on a constant window of representable values
\* every call returns (False, 0.0) and records nothing.
C3_RepresentableWindows ==
    [][ (/\ IsDetectStep
         /\ Len(WindowOf(ret')) >= min_history_for_detection
         /\ IsConstant(WindowOf(ret'))
         /\ Representable(WindowOf(ret')[1]))
          => /\ ret'.is_anomaly = FALSE
             /\ ret'.z_score = <<0, 1>>
             /\ UNCHANGED <<last_alert_time, anomalies_detected, anomaly_details>>
      ]_vars

\* The score the claim describes: sc = <<p, q>> is the square of
\* |v - mean(h)| / std(h), that is the fraction dev^2 / var in lowest terms, with
\* var = n*Q - S*S and dev = n*v - S.
IsScoreOf(sc, h, v) ==
    LET n == Len(h)
        S == SeqSum(h)
        Q == SeqSumSq(h)
        var == n * Q - S * S
        dev2 == (n * v - S) * (n * v - S)
        g == GCD(var, dev2)
    IN  sc = <<dev2 \div g, var \div g>>

\* |v - mean(h)| / std(h) > anomaly_threshold, for a window of non-zero spread.
ScoreExceeds(h, v) ==
    LET n == Len(h)
        S == SeqSum(h)
        Q == SeqSumSq(h)
    IN  /\ n * Q - S * S # 0
        /\ (n * v - S) * (n * v - S)
              > anomaly_threshold * anomaly_threshold * (n * Q - S * S)

\* C4: under the non-decreasing clock, two True returns for one key are more than
\* alert_cooldown apart; a call within the cooldown whose score exceeds the
\* threshold returns (False, score) with the score of the window and value (window
\* of mean 10 and stddev 2, value 20: (True, 5.0), then at once (False, 5.0)).
C4_Cooldown ==
    /\ [](\A k \in DOMAIN alert_times :
            \A i, j \in 1..Len(alert_times[k]) :
                i < j => alert_times[k][j] - alert_times[k][i] > alert_cooldown)
    /\ [][ IsDetectStep =>
             LET k == ret'.key
                 v == ret'.value
                 h == WindowOf(ret')
             IN  /\ (/\ Len(h) >= min_history_for_detection
                     /\ ScoreExceeds(h, v)
                     /\ k \in DOMAIN last_alert_time
                     /\ now - last_alert_time[k] <= alert_cooldown)
                       => /\ ret'.is_anomaly = FALSE
                          /\ ret'.z_score[2] # 0
                          /\ IsScoreOf(ret'.z_score, h, v)
                 /\ (/\ ret.op = "detect_anomaly"
                     /\ ret.is_anomaly
                     /\ ret.key = k
                     /\ ret.value = v)
                       => /\ ret'.is_anomaly = FALSE
                          /\ ret'.z_score = ret.z_score
                 /\ (h = Mix(15, 15) /\ v = 200) => ret'.z_score = <<25, 1>>
         ]_vars

\* C4 witness: the second of two immediate calls: the key alerted at this very
\* time, and the call returned (False, 5.0).
C4_Witness ==
    /\ ret.op = "detect_anomaly"
    /\ ret.key \in DOMAIN last_alert_time
    /\ last_alert_time[ret.key] = now
    /\ ret.is_anomaly = FALSE
    /\ ret.z_score = <<25, 1>>

\* The stddev the call computed is 0: no spread, and no rounding residue in the
\* mean.
StdIsZero(h) == IsConstant(h) /\ (fp_residue => Representable(h[1]))

\* |v - mean(h)| > anomaly_threshold * std(h), squared and multiplied by n^2.
ScoreAbove(h, v) ==
    LET n == Len(h)
        S == SeqSum(h)
        Q == SeqSumSq(h)
    IN  (n * v - S) * (n * v - S)
            > anomaly_threshold * anomaly_threshold * (n * Q - S * S)

\* C5: detect_anomaly returns True, recording now as last_alert_time[key], exactly
\* when the window has >= min_history_for_detection values, its stddev (as the
\* call computed it) is not 0, the score is strictly above anomaly_threshold and
\* now - last_alert_time[key] (0 when the key has no alert yet) is strictly above
\* alert_cooldown.
C5_AlertIff ==
    [][ IsDetectStep =>
          LET k == ret'.key
              h == WindowOf(ret')
          IN  /\ ret'.is_anomaly <=>
                    /\ Len(h) >= min_history_for_detection
                    /\ ~StdIsZero(h)
                    /\ ScoreAbove(h, ret'.value)
                    /\ now - Get(last_alert_time, k, 0) > alert_cooldown
              /\ ret'.is_anomaly =>
                    /\ k \in DOMAIN last_alert_time'
                    /\ last_alert_time'[k] = now
      ]_vars

\* C5 witness: a score of exactly 3.0 (window of mean 10 and stddev 2, value 16)
\* with no cooldown running: no alert.
C5_Witness ==
    /\ ret.op = "detect_anomaly"
    /\ WindowOf(ret) = Mix(15, 15)
    /\ ret.value = 160
    /\ ret.z_score = <<9, 1>>
    /\ now > alert_cooldown
    /\ ret.key \notin DOMAIN last_alert_time
    /\ ret.is_anomaly = FALSE

\* C6: a call returning False leaves last_alert_time and all counters unchanged; a
\* call returning True adds exactly 1 to the global counter and to the counter of
\* its key, and changes last_alert_time for its key only.
C6_Frame ==
    [][ IsDetectStep =>
          IF ret'.is_anomaly
          THEN LET k == ret'.key
               IN  /\ anomalies_detected' = anomalies_detected + 1
                   /\ DOMAIN anomaly_details' = DOMAIN anomaly_details \cup {k}
                   /\ anomaly_details'[k] = Get(anomaly_details, k, 0) + 1
                   /\ \A o \in DOMAIN anomaly_details' \ {k} :
                          anomaly_details'[o] = anomaly_details[o]
                   /\ DOMAIN last_alert_time' = DOMAIN last_alert_time \cup {k}
                   /\ \A o \in DOMAIN last_alert_time' \ {k} :
                          last_alert_time'[o] = last_alert_time[o]
          ELSE UNCHANGED <<last_alert_time, anomalies_detected, anomaly_details>>
      ]_vars

\* C6 witness: the second alert of a key, while another key holds an alert of an
\* earlier time.
C6_Witness ==
    /\ ret.op = "detect_anomaly"
    /\ ret.is_anomaly
    /\ anomaly_details[ret.key] = 2
    /\ \E o \in DOMAIN last_alert_time : o # ret.key /\ last_alert_time[o] < now

(***************************************************************************)
(* Properties of the traffic steerer                                       *)
(***************************************************************************)
IsClassifyStep == ret'.op = "classify_traffic"
IsCheckStep == ret'.op = "check_qos_violations"

\* The entries classify_traffic read in the call recorded in ret (the history
\* already holds the snapshot of that call) and the values it extracted.
RecentEntries == LastN(ue_traffic_history[ret.ue], 10)
RecentDl == Extract(RecentEntries, DL)
RecentUl == Extract(RecentEntries, UL)

\* The call recorded in ret had >= 10 entries carrying downlink and uplink values.
Classifiable ==
    /\ ret.op = "classify_traffic"
    /\ Len(ue_traffic_history[ret.ue]) >= 10
    /\ RecentDl # <<>>
    /\ RecentUl # <<>>

\* C7: every classify_traffic call appends its snapshot to the history of its UE,
\* which keeps the most recent 50 entries, and returns unknown whenever that
\* history then holds fewer than 10 entries.
C7_AppendAndMinHistory ==
    [][ IsClassifyStep =>
          LET u == ret'.ue
          IN  /\ ue_traffic_history'[u] =
                     LastN(Append(ue_traffic_history[u], ret'.metrics),
                           traffic_history_maxlen)
              /\ \A o \in UEs \ {u} : ue_traffic_history'[o] = ue_traffic_history[o]
              /\ Len(ue_traffic_history'[u]) < 10 => ret'.traffic_type = "unknown"
      ]_vars

\* C7 witness: a call that left 9 entries, all of them the voice snapshot.
C7_Witness ==
    /\ ret.op = "classify_traffic"
    /\ ue_traffic_history[ret.ue] = Rep(sVoice, 9)
    /\ ret.traffic_type = "unknown"

\* The label of the first rule, in the order voice, video, gaming, web,
\* file_transfer, whose condition holds; unknown when none does.
FirstMatch(d, u) ==
    LET Rules == << <<"voice", IsVoice(d, u)>>, <<"video", IsVideo(d, u)>>,
                    <<"gaming", IsGaming(d, u)>>, <<"web", IsWeb(d, u)>>,
                    <<"file_transfer", IsFileTransfer(d, u)>> >>
        hit == {i \in 1..Len(Rules) : Rules[i][2]}
    IN  IF hit = {} THEN "unknown"
        ELSE Rules[CHOOSE i \in hit : \A j \in hit : i <= j][1]

\* C8: with >= 10 entries carrying downlink and uplink values classify_traffic
\* returns the label of the first rule that holds over the most recent 10 entries
\* (unknown when none holds); 10 entries of 0.2 down and 0.1 up give voice and 10
\* entries of downlink mean 30 and variance 150 give video.
C8_FirstMatchWins ==
    Classifiable =>
        /\ ret.traffic_type = FirstMatch(Stats(RecentDl), Stats(RecentUl))
        /\ RecentEntries = Rep(sVoice, 10) => ret.traffic_type = "voice"
        /\ RecentEntries = Rep(sVideo, 10) => ret.traffic_type = "video"

\* C8 witness: the conditions of video and gaming hold together and video, the
\* earlier rule, is returned.
C8_Witness ==
    /\ Classifiable
    /\ IsVideo(Stats(RecentDl), Stats(RecentUl))
    /\ IsGaming(Stats(RecentDl), Stats(RecentUl))
    /\ ret.traffic_type = "video"

\* None of voice, video, gaming matched in the call recorded in ret.
NoEarlierRule ==
    /\ Classifiable
    /\ ~IsVoice(Stats(RecentDl), Stats(RecentUl))
    /\ ~IsVideo(Stats(RecentDl), Stats(RecentUl))
    /\ ~IsGaming(Stats(RecentDl), Stats(RecentUl))

\* The average downlink throughput of the recent entries is exactly 1, exactly 20,
\* strictly between the two.
AvgDlIsOne == SeqSum(RecentDl) = 10 * Len(RecentDl)
AvgDlIsTwenty == SeqSum(RecentDl) = 200 * Len(RecentDl)
AvgDlBetween ==
    /\ SeqSum(RecentDl) > 10 * Len(RecentDl)
    /\ SeqSum(RecentDl) < 200 * Len(RecentDl)

\* C9 as stated: when voice, video and gaming do not match and the average
\* downlink throughput is exactly 1 or exactly 20, classify_traffic returns web.
C9_WebInclusive ==
    (NoEarlierRule /\ (AvgDlIsOne \/ AvgDlIsTwenty)) => ret.traffic_type = "web"

\* C9 amended: the web rule is exclusive at both ends: when voice, video and
\* gaming do not match, classify_traffic returns web exactly when the average
\* downlink throughput is strictly between 1 and 20, and unknown at exactly 1 and
\* at exactly 20.
C9_WebExclusive ==
    NoEarlierRule =>
        /\ ret.traffic_type = "web" <=> AvgDlBetween
        /\ (AvgDlIsOne \/ AvgDlIsTwenty) => ret.traffic_type = "unknown"

\* C9 witness: an average of exactly 20 with no earlier rule matching.
C9_Witness ==
    /\ NoEarlierRule
    /\ AvgDlIsTwenty
    /\ ret.traffic_type = "unknown"

\* C10: the violation counter of the UE goes up by exactly 1 on a call of
\* check_qos_violations that returns True (also when the sample is below both the
\* downlink and the uplink floor) and is unchanged on a call that returns False;
\* no other UE's counter changes.
C10_ViolationCount ==
    [][ IsCheckStep =>
          LET u == ret'.ue
          IN  /\ ue_qos_violations'[u] =
                     ue_qos_violations[u] + (IF ret'.violated THEN 1 ELSE 0)
              /\ \A o \in UEs \ {u} : ue_qos_violations'[o] = ue_qos_violations[o]
      ]_vars

\* C10 witness: a violating sample below 50% of the bandwidth down and below 30%
\* of it up.
C10_Witness ==
    /\ ret.op = "check_qos_violations"
    /\ ret.violated
    /\ ret.traffic_type = "video"
    /\ HasValues(ret.metrics, DL)
    /\ HasValues(ret.metrics, UL)
    /\ 2 * SeqSum(ret.metrics[DL]) < 50
    /\ 10 * SeqSum(ret.metrics[UL]) < 3 * 50
    /\ ue_qos_violations[ret.ue] = 1

\* C25: check_qos_violations with traffic type unknown returns False and leaves
\* the violation counter of every UE unchanged, for every snapshot, including one
\* whose downlink and uplink throughput are zero.
C25_UnknownNeverViolates ==
    [][ (IsCheckStep /\ ret'.traffic_type = "unknown")
          => /\ ret'.violated = FALSE
             /\ UNCHANGED ue_qos_violations
      ]_vars

\* C25 witness: a call with type unknown on a snapshot of zero throughput both
\* ways returned False, and the counter of the UE is still the 1 it was.
C25_Witness ==
    /\ ret.op = "check_qos_violations"
    /\ ret.traffic_type = "unknown"
    /\ ret.metrics = Snap(<<0>>, <<0>>)
    /\ ret.violated = FALSE
    /\ ue_qos_violations[ret.ue] = 1

(***************************************************************************)
(* Properties of the cell load                                             *)
(***************************************************************************)
IsLoadStep == ret'.op = "evaluate_cell_load"

\* C14: evaluate_cell_load returns the mean of the indicators of the metrics
\* present, every indicator lies in [0, 1] and so does the load, for every numeric
\* input; with no load-relevant metric it returns 0.0 and stores 0.0 for the cell.
\* The code bounds a throughput indicator from above only and the connection
\* indicator not at all (C14_NegativeLoad).
C14_LoadInUnitInterval ==
    [][ IsLoadStep =>
          LET li == ret'.indicators
              load == ret'.load
          IN  /\ \A i \in 1..Len(li) : 0 <= li[i] /\ li[i] <= LoadUnit
              /\ 0 <= load[1] /\ load[1] <= load[2]
              /\ li # <<>> => load[1] * Len(li) * LoadUnit = SeqSum(li) * load[2]
              /\ cell_load'[ret'.cell] = load
              /\ (ret'.metrics = EmptyDict) => load = <<0, 1>>
      ]_vars

\* The run that violates C14: a connection count of 150 gives the indicator
\* 1.0 - 1.5 = -0.5, returned and stored as the load of the cell.
C14_NegativeLoad ==
    /\ ret.op = "evaluate_cell_load"
    /\ ret.metrics = (CONN :> <<1500>>)
    /\ ret.load = <<-5000, LoadUnit>>
    /\ cell_load[ret.cell] = ret.load

\* What the code does achieve: no indicator and no load is above 1, and a sample
\* without load-relevant metrics stores and returns 0.0.
C14_UpperBound ==
    [][ IsLoadStep =>
          LET li == ret'.indicators
              load == ret'.load
          IN  /\ \A i \in 1..Len(li) : li[i] <= LoadUnit
              /\ load[1] <= load[2]
              /\ (ret'.metrics = EmptyDict) =>
                     load = <<0, 1>> /\ cell_load'[ret'.cell] = <<0, 1>>
      ]_vars

(***************************************************************************)
(* Properties of the steering decision                                     *)
(***************************************************************************)
IsCallbackStep == ret'.op = "my_subscription_callback"

\* The callback recorded in r emitted a steering recommendation for UE u.
SteeredIn(r, u) == \E i \in 1..Len(r.log) : r.log[i].ue = u /\ r.log[i].steered

\* The callback recorded in r found a QoS violation on a sample of UE u.
ViolatedIn(r, u) == \E i \in 1..Len(r.log) : r.log[i].ue = u /\ r.log[i].qos_violated

\* C11: the violation counter of a UE decreases only at the step that emits a
\* steering recommendation for it; at that step it becomes 0 and
\* last_steering_time[ue] becomes the current time; on every other indication it
\* grows by the violation found (also during the steering cooldown: it is neither
\* reset nor capped).
C11_CounterMonotone ==
    [][ \A u \in UEs :
          /\ ue_qos_violations'[u] < ue_qos_violations[u]
                => IsCallbackStep /\ SteeredIn(ret', u)
          /\ (IsCallbackStep /\ SteeredIn(ret', u))
                => /\ ue_qos_violations'[u] = 0
                   /\ u \in DOMAIN last_steering_time'
                   /\ last_steering_time'[u] = now
          /\ (IsCallbackStep /\ ~SteeredIn(ret', u))
                => /\ ue_qos_violations'[u] =
                       ue_qos_violations[u] + (IF ViolatedIn(ret', u) THEN 1 ELSE 0)
                   /\ Get(last_steering_time', u, 0) = Get(last_steering_time, u, 0)
      ]_vars

\* C11 witness: a recommendation for a UE whose counter had grown beyond the
\* threshold while the cooldown was running; the counter is 0 again.
C11_Witness ==
    /\ ret.op = "my_subscription_callback"
    /\ \E i \in 1..Len(ret.log) :
          /\ ret.log[i].steered
          /\ ret.log[i].violations > qos_violation_threshold
          /\ ue_qos_violations[ret.log[i].ue] = 0
          /\ last_steering_time[ret.log[i].ue] = now

\* C12: a recommendation is emitted for a UE on a sample iff, at that sample, its
\* violation counter (the sample's own violation counted) is >= 3, the cell load
\* of the indication is strictly above 0.8, the traffic type classified on the
\* sample is voice, video or gaming, and the steering cooldown is not running
\* (line 138; its end point is the subject of C13).
C12_SteerIff ==
    [][ IsCallbackStep =>
          \A i \in 1..Len(ret'.log) :
              LET e == ret'.log[i]
                  u == e.ue
              IN  e.steered <=>
                    /\ ue_qos_violations[u] + (IF e.qos_violated THEN 1 ELSE 0) >= 3
                    /\ 10 * ret'.load[1] > 8 * ret'.load[2]
                    /\ e.traffic_type \in {"voice", "video", "gaming"}
                    /\ ~(now - Get(last_steering_time, u, 0) < 120)
      ]_vars

\* C12 witness: an indication over two UEs with 3 or more violations each at load
\* 0.9 and outside the cooldown: the gaming UE is steered, the web UE is not.
C12_Witness ==
    /\ ret.op = "my_subscription_callback"
    /\ Len(ret.log) = 2
    /\ ret.log[1].steered /\ ret.log[1].traffic_type = "gaming"
    /\ ret.log[1].violations = 3
    /\ ~ret.log[2].steered /\ ret.log[2].traffic_type = "web"
    /\ ret.log[2].violations >= 3

\* C13 (as claimed): a recommendation is emitted only if now - last_steering_time
\* is strictly greater than 120, the test of detect_anomaly's alert cooldown.
C13_SteeringCooldownStrict ==
    [][ IsCallbackStep =>
          \A i \in 1..Len(ret'.log) :
              ret'.log[i].steered
                => now - Get(last_steering_time, ret'.log[i].ue, 0) > steering_cooldown
      ]_vars

\* C13 (as the code has it): a recommendation is emitted only if
\* now - last_steering_time >= 120; at exactly 120 one is emitted when the other
\* conditions hold.  The callback writes last_steering_time and never
\* last_alert_time.
C13_SteeringCooldownInclusive ==
    [][ IsCallbackStep =>
          /\ \A i \in 1..Len(ret'.log) :
                LET e == ret'.log[i]
                    elapsed == now - Get(last_steering_time, e.ue, 0)
                IN  /\ e.steered => elapsed >= steering_cooldown
                    /\ (/\ elapsed = steering_cooldown
                        /\ e.violations >= qos_violation_threshold
                        /\ 10 * ret'.load[1] > 8 * ret'.load[2]
                        /\ e.traffic_type \in {"voice", "video", "gaming"})
                          => e.steered
          /\ UNCHANGED last_alert_time
      ]_vars

\* C13 witness: a recommendation exactly 120 s after the previous one for the UE.
C13_Witness ==
    /\ ret.op = "my_subscription_callback"
    /\ \E i \in 1..Len(ret.log) :
          /\ ret.log[i].steered
          /\ ret.log[i].last_steer > 0
          /\ now - ret.log[i].last_steer = steering_cooldown

\* C29: in the per-sample flow the cell load is computed from the indication's
\* top-level cell measurement data only: for an indication that carries per-UE
\* data but no cell-level data the load returned and stored is 0.0, and no UE of
\* that indication is steered, whatever its violation count and traffic type.
C29_NoCellDataNoSteering ==
    [][ (IsCallbackStep /\ ret'.cell_meas = EmptyDict)
          => /\ ret'.load = <<0, 1>>
             /\ cell_load'[ret'.cell] = <<0, 1>>
             /\ \A i \in 1..Len(ret'.log) : ~ret'.log[i].steered
             /\ UNCHANGED last_steering_time
      ]_vars

\* C29 witness: an indication without cell-level data for a voice UE with 3
\* violations and no steering in the last 120 seconds: not steered.
C29_Witness ==
    /\ ret.op = "my_subscription_callback"
    /\ ret.cell_meas = EmptyDict
    /\ Len(ret.log) = 1
    /\ ret.log[1].traffic_type = "voice"
    /\ ret.log[1].violations >= qos_violation_threshold
    /\ now - ret.log[1].last_steer >= steering_cooldown
    /\ ~ret.log[1].steered

(***************************************************************************)
(* Properties of the ML optimizer                                          *)
(***************************************************************************)
IsCollectStep == ret'.op = "collect_training_data"
IsTrainStep == ret'.op = "train_models"
IsPredictPrbStep == ret'.op = "predict_prb_setting"
IsPredictHoStep == ret'.op = "predict_handover_need"
IsMLCallbackStep == ret'.op = "ml_subscription_callback"

\* The UE has stored history, as update_metrics_history builds it.
HasHistory(u) == u \in DOMAIN ue_metrics_history /\ Len(ue_metrics_history[u]) > 0

\* The three lists of the buffer have one length.
Aligned ==
    /\ Len(training_data_y_prb) = Len(training_data_X)
    /\ Len(training_data_y_ho) = Len(training_data_X)

\* C15: collect_training_data for a UE with stored history completes without
\* error and appends exactly one entry (a 6-element feature vector, the target,
\* the label); for a UE without stored history it leaves the buffer unchanged.
\* The code raises TypeError on the first slice of the deque (C15_TypeError).
C15_CollectAppends ==
    [][ IsCollectStep =>
          IF HasHistory(ret'.ue)
          THEN /\ ret'.raised = "none"
               /\ Len(training_data_X') =
                      IF Len(training_data_X) = max_training_samples
                      THEN kept_training_samples ELSE Len(training_data_X) + 1
               /\ Len(training_data_X'[Len(training_data_X')]) = 6
               /\ training_data_y_prb'[Len(training_data_y_prb')] = ret'.prb_setting
               /\ training_data_y_ho'[Len(training_data_y_ho')] = ret'.ho_event
          ELSE UNCHANGED <<training_data_X, training_data_y_prb, training_data_y_ho>>
      ]_vars

\* The run that violates C15: one update_metrics_history for a UE, then
\* collect_training_data for it with both throughputs present: TypeError, and
\* nothing was appended to the empty buffer.
C15_TypeError ==
    /\ ret.op = "collect_training_data"
    /\ HasHistory(ret.ue)
    /\ ret.metrics = Snap(<<50>>, <<10>>)
    /\ ret.raised = "TypeError"
    /\ training_data_X = <<>>

C16_BoundedAligned == Len(training_data_X) <= max_training_samples /\ Aligned

\* C17: train_models with fewer than 20 buffered entries returns False and
\* changes neither the scaler, the models nor the trained flag; with >= 20 it fits
\* the scaler and the regression model on the whole buffer, fits the classifier
\* only if the labels hold two distinct values, sets trained and returns True.
C17_TrainModels ==
    [][ IsTrainStep =>
          IF Len(training_data_X) < 20
          THEN /\ ret'.result = FALSE
               /\ UNCHANGED <<scaler, prb_predictor, handover_predictor,
                              model_trained>>
          ELSE /\ ret'.result = TRUE
               /\ model_trained'
               /\ scaler' = [gen |-> fits + 1, n |-> Len(training_data_X)]
               /\ prb_predictor' = [gen |-> fits + 1, n |-> Len(training_data_X)]
               /\ IF Cardinality({training_data_y_ho[i] :
                                     i \in 1..Len(training_data_y_ho)}) >= 2
                  THEN handover_predictor' =
                           [gen |-> fits + 1, n |-> Len(training_data_X)]
                  ELSE UNCHANGED handover_predictor
      ]_vars

\* C17 witness: train_models on exactly 20 entries with a single label: it
\* returned True, the scaler and the regression model are fitted on 20 entries,
\* the classifier is not fitted.
C17_Witness ==
    /\ ret.op = "train_models"
    /\ ret.result
    /\ Len(training_data_X) = 20
    /\ model_trained
    /\ scaler = [gen |-> 1, n |-> 20]
    /\ prb_predictor = [gen |-> 1, n |-> 20]
    /\ handover_predictor = Unfitted

C18_Default ==
    [][ (IsPredictPrbStep /\ (~model_trained \/ ~HasHistory(ret'.ue)))
          => ret'.raised = "none" /\ ret'.value = 100
      ]_vars

C20_RetrainOnLength ==
    [][ (IsMLCallbackStep /\ ret'.retrained # <<>>)
          => (ret'.retrained[1] <=>
                (Len(training_data_X) % 50 = 0 /\ Len(training_data_X) > 20))
      ]_vars

(***************************************************************************)
(* Properties of missing data                                              *)
(***************************************************************************)
\* A throughput metric is absent from the snapshot or carries an empty list.
MissingData(metrics_data) ==
    \E metric \in {DL, UL} :
        metric \notin DOMAIN metrics_data \/ metrics_data[metric] = <<>>

\* C21: no per-sample operation raises on missing data: for every snapshot in
\* which a metric is absent or carries an empty value list, collect_training_data,
\* predict_prb_setting and predict_handover_need complete.  (classify_traffic,
\* check_qos_violations and evaluate_cell_load have no raising path: they test
\* the lists before they index them.)  The code indexes an empty list at lines
\* 53-54 (C21_IndexError).
C21_NoRaiseOnMissingData ==
    [][ ((IsCollectStep \/ IsPredictPrbStep \/ IsPredictHoStep)
            /\ MissingData(ret'.metrics))
          => ret'.raised = "none"
      ]_vars

\* The run that violates C21: update_metrics_history for a UE, then
\* collect_training_data for it with an empty downlink list: IndexError.
C21_IndexError ==
    /\ ret.op = "collect_training_data"
    /\ HasHistory(ret.ue)
    /\ ret.metrics = Snap(<<>>, <<10>>)
    /\ ret.raised = "IndexError"

\* What does hold: an absent metric is never the reason of an exception before
\* the history is sliced, and a UE without stored history never raises.
C21_NoHistoryCompletes ==
    [][ ((IsCollectStep \/ IsPredictPrbStep \/ IsPredictHoStep)
            /\ ~HasHistory(ret'.ue))
          => ret'.raised = "none"
      ]_vars

C22_ConsistentWhenIdle ==
    train_pc = "idle" => (scaler.gen = prb_predictor.gen /\ scaler.gen = fits)

(***************************************************************************)
(* Properties of the predictions' effect                                   *)
(***************************************************************************)
\* C24: predict_prb_setting and predict_handover_need change no state: the
\* training buffer, the trained flag, the scaler and the models and every UE's
\* stored history are the same after the call as before it, whether it returns
\* or raises; the scaler and the models change only inside train_models (called
\* directly or from update_metrics_history).
C24_PredictionsReadOnly ==
    [][ /\ (IsPredictPrbStep \/ IsPredictHoStep) =>
              UNCHANGED <<ue_metrics_history, model_trained, training_data_X,
                          training_data_y_prb, training_data_y_ho, scaler,
                          prb_predictor, handover_predictor>>
        /\ (scaler' # scaler \/ prb_predictor' # prb_predictor
               \/ handover_predictor' # handover_predictor)
              => \/ ret'.op = "train_models"
                 \/ ret'.op = "ml_update_metrics_history" /\ ret'.retrained
      ]_vars

\* C24 witness: a prediction on a trained model for a UE without stored history
\* returned the default, with another UE's history and the fit of the scaler in
\* place.
C24_Witness ==
    /\ ret.op = "predict_prb_setting"
    /\ ret.raised = "none"
    /\ ret.value = max_prb_ratio_high
    /\ model_trained
    /\ scaler.gen = 1
    /\ ret.ue \notin DOMAIN ue_metrics_history
    /\ ue_metrics_history # EmptyDict

(***************************************************************************)
(* Properties of the anomaly detector's per-sample flow                    *)
(***************************************************************************)
IsADCallbackStep == ret'.op = "ad_subscription_callback"

\* The first 29 values of the window are equal and the 30th, its last, differs.
TwentyNineThenOne(h) ==
    /\ Len(h) = min_history_for_detection
    /\ \A i \in 1..(min_history_for_detection - 1) : h[i] = h[1]
    /\ h[min_history_for_detection] # h[1]

\* C26: in the per-sample flow the value is appended to the window of its key
\* before it is scored: the window the score is computed from ends with the
\* value scored; so a key whose first 29 samples are equal and whose 30th
\* differs scores sqrt(29) (29 as a square) on the 30th sample, and that sample
\* is reported as an anomaly exactly when the cooldown allows.
C26_AppendBeforeScore ==
    [][ IsADCallbackStep =>
          \A i \in 1..Len(ret'.log) :
              LET e == ret'.log[i]
                  h == metrics_history'[e.key]
              IN  /\ h[Len(h)] = e.value
                  /\ (Len(h) >= min_history_for_detection /\ ~IsConstant(h))
                        => IsScoreOf(e.z_score, h, e.value)
                  /\ TwentyNineThenOne(h)
                        => /\ e.z_score = <<29, 1>>
                           /\ e.is_anomaly <=>
                                 now - Get(last_alert_time, e.key, 0) > alert_cooldown
      ]_vars

\* C26 witness: the 30th sample of a key, 20.0 after 29 samples of 10.0, scored
\* sqrt(29) and was reported.
C26_Witness ==
    /\ ret.op = "ad_subscription_callback"
    /\ Len(ret.log) = 1
    /\ ret.log[1].value = 200
    /\ ret.log[1].z_score = <<29, 1>>
    /\ ret.log[1].is_anomaly
    /\ metrics_history[ret.log[1].key] = Append(Rep(100, 29), 200)

\* The sum of the values of a dict of numbers.
RECURSIVE DictSum(_)
DictSum(d) ==
    IF DOMAIN d = {} THEN 0
    ELSE LET k == CHOOSE x \in DOMAIN d : TRUE
         IN  d[k] + DictSum([x \in DOMAIN d \ {k} |-> d[x]])

\* C27: in every reachable state of the anomaly detector the global anomaly
\* counter is the sum of the per-key counters, and a key has a per-key counter
\* iff it has a last alert time.
C27_CountersAgree ==
    /\ anomalies_detected = DictSum(anomaly_details)
    /\ DOMAIN anomaly_details = DOMAIN last_alert_time

\* C27 witness: three alerts, two of one key and one of another.
C27_Witness ==
    /\ anomalies_detected = 3
    /\ \E k, o \in DOMAIN anomaly_details :
          k # o /\ anomaly_details[k] = 2 /\ anomaly_details[o] = 1
    /\ DOMAIN last_alert_time = DOMAIN anomaly_details

(***************************************************************************)
(* Properties of the ML optimizer's per-sample flow                        *)
(***************************************************************************)
\* C28: in the per-sample flow every PRB max ratio sent in a control request is
\* the high bound 100; the low bound 10 is never emitted, after any number of
\* samples and retrainings.
C28_OnlyHighSent ==
    [][ IsMLCallbackStep =>
          \A i \in 1..Len(ret'.sent) : ret'.sent[i] = max_prb_ratio_high
      ]_vars

\* C28 witness: the second indication of a run on a buffer of 20 entries; its
\* control request carried 100.
C28_Witness ==
    /\ ret.op = "ml_subscription_callback"
    /\ ret.sent = <<max_prb_ratio_high>>
    /\ nUpd = 2
    /\ Len(training_data_X) = min_training_samples

\* After a retraining the flow sends nothing: the prediction raises (C18).
C28_NothingSentOnceTrained ==
    [][ (IsMLCallbackStep /\ model_trained') => ret'.sent = <<>> ]_vars

(***************************************************************************)
(* Properties of the control module                                        *)
(***************************************************************************)
IsSendStep == ret'.op = "send_control_request"

\* The ratio brought into [0, 100].
InRange(ratio) == IF ratio < 0 THEN 0 ELSE IF ratio > 100 THEN 100 ELSE ratio

\* C30: send_control_request_style_2_o_rrm_policy_ratio clamps the min, max and
\* dedicated ratios to [0, 100] before use; if then max < min it sends nothing
\* and builds no request (the requestor id is not advanced); otherwise exactly
\* one control request is sent, with the clamped ratios, 0 <= min <= max <= 100.
C30_ClampAndSend ==
    [][ IsSendStep =>
          IF InRange(ret'.max_prb_ratio) < InRange(ret'.min_prb_ratio)
          THEN UNCHANGED <<requestorID, rmr_sent>>
          ELSE /\ Len(rmr_sent') = Len(rmr_sent) + 1
               /\ SubSeq(rmr_sent', 1, Len(rmr_sent)) = rmr_sent
               /\ LET req == rmr_sent'[Len(rmr_sent')]
                  IN  /\ req.rRMPolicyMinRatio = InRange(ret'.min_prb_ratio)
                      /\ req.rRMPolicyMaxRatio = InRange(ret'.max_prb_ratio)
                      /\ req.rRMPolicyDedicatedRatio = InRange(ret'.dedicated_prb_ratio)
                      /\ 0 <= req.rRMPolicyMinRatio
                      /\ req.rRMPolicyMinRatio <= req.rRMPolicyMaxRatio
                      /\ req.rRMPolicyMaxRatio <= 100
                      /\ req.rRMPolicyDedicatedRatio \in 0..100
                      /\ req.requestorID = requestorID'
               /\ requestorID' # requestorID
      ]_vars

\* C30 witness: a call with max 30 below min 50 sent nothing after a call with
\* min -10, max 150 and dedicated 150 had sent one request with 0, 100 and 100.
C30_Witness ==
    /\ ret.op = "send_control_request"
    /\ ret.min_prb_ratio = 50
    /\ ret.max_prb_ratio = 30
    /\ Len(rmr_sent) = 1
    /\ rmr_sent[1].rRMPolicyMinRatio = 0
    /\ rmr_sent[1].rRMPolicyMaxRatio = 100
    /\ rmr_sent[1].rRMPolicyDedicatedRatio = 100
    /\ requestorID = rmr_sent[1].requestorID
    /\ nUpd = 2

(***************************************************************************)
(* Properties of the length encoding                                       *)
(***************************************************************************)
IsEncoded == ret.op = "encode_length"

IsBuilt == ret.op = "build_ric_control_request" /\ ret.raised = "none"

\* The lengths of the claim: 0 <= length < 16384.
ClaimLengths == {l \in EncodeLengths : l < 16384}

\* The decoder of the claim, reading at position pos of a byte string: two
\* bytes when the top two bits of the first are 10, one byte otherwise.  next
\* is the position after the length; a second byte that is not there gives
\* no length (-1).
DecodeAt(bytes, pos) ==
    IF bytes[pos] \div 64 = 2
    THEN IF pos + 1 <= Len(bytes)
         THEN [value |-> (bytes[pos] % 64) * 256 + bytes[pos + 1], next |-> pos + 2]
         ELSE [value |-> -1, next |-> pos + 1]
    ELSE [value |-> bytes[pos], next |-> pos + 1]

decode_length(bytes) == DecodeAt(bytes, 1).value

\* C31: encode_length is unambiguous on 0 <= length < 16384: distinct lengths
\* give distinct byte sequences, no one-byte encoding equals the first byte of
\* a two-byte encoding, and a decoder that reads two bytes when the top two
\* bits of the first byte are 10 and one byte otherwise recovers the length.
C31_Unambiguous ==
    (IsEncoded /\ ret.length < 16384) =>
        /\ \A m \in ClaimLengths : m # ret.length => encode_length(m) # ret.bytes
        /\ Len(ret.bytes) = 1 =>
               \A m \in ClaimLengths :
                   Len(encode_length(m)) = 2 => encode_length(m)[1] # ret.bytes[1]
        /\ decode_length(ret.bytes) = ret.length

\* C31, the state that refutes it: 129 is encoded in the one byte 0x81, which
\* is also the first byte of the two bytes of 256, and the decoder, seeing the
\* top bits 10, looks for a second byte and does not recover 129.
C31_Ambiguous ==
    /\ IsEncoded
    /\ ret.length = 129
    /\ ret.bytes = <<129>>
    /\ encode_length(256) = <<129, 0>>
    /\ decode_length(ret.bytes) # 129

\* The first part of C31 alone: distinct lengths below 16384 give distinct
\* byte sequences.
C31_DistinctEncodings ==
    (IsEncoded /\ ret.length < 16384) =>
        \A m \in ClaimLengths : m # ret.length => encode_length(m) # ret.bytes

\* Outside 128 .. 255 the whole of C31 holds: the one-byte encodings below 128
\* have a top bit 0, and the two-byte encodings start with the bits 10.
C31_UnambiguousOutsideGap ==
    (IsEncoded /\ ret.length < 16384 /\ (ret.length < 128 \/ ret.length >= 256)) =>
        /\ Len(ret.bytes) = 1 =>
               \A m \in ClaimLengths :
                   Len(encode_length(m)) = 2 => encode_length(m)[1] # ret.bytes[1]
        /\ decode_length(ret.bytes) = ret.length

\* From 16384 on the two forced bits overwrite bits of the length.
C31_LostBits ==
    /\ IsEncoded
    /\ ret.length = 16640
    /\ ret.bytes = encode_length(256)

\* The messages built from the texts of lines 136-137 are read back by the
\* decoder: the header is 44 bytes, the message 736 to 748, and none of the
\* five encoded lengths lies in 128 .. 255.
C31_BuiltFrameDecodes ==
    IsBuilt =>
        LET p == ret.payload
            total == DecodeAt(p, 4)
            hdr1 == DecodeAt(p, total.next + 21)
            hdr == DecodeAt(p, hdr1.next)
            msg1 == DecodeAt(p, hdr.next + hdr.value + 3)
            msg == DecodeAt(p, msg1.next)
        IN  /\ total.value = Len(p) - (total.next - 1)
            /\ hdr1.value = ret.control_header_len + 1
            /\ hdr.value = ret.control_header_len
            /\ msg1.value = ret.control_msg_len + 2
            /\ msg.value = ret.control_msg_len
            /\ msg.next + msg.value + 5 = Len(p) + 1

\* A message with the longest text, three ratios of 100, was built.
C31_BuiltWitness ==
    /\ IsBuilt
    /\ ret.control_header_len = 44
    /\ ret.control_msg_len = 748
    /\ SubSeq(ret.payload, 1, 5) = <<0, 4, 0, 131, 59>>

====
